---- MODULE Spec2Model ----
(***************************************************************************)
(* The reactive store primitive (reactiveFactory / reactiveObjectFactory)  *)
(* and the declarative wiring built on it (setupComputed, setupWatchers,   *)
(* bind) of src/index.js, as a state machine.                              *)
(*                                                                         *)
(* JavaScript runs the library on one thread: a call of set runs every     *)
(* callback to completion on the call stack.  The model keeps that call    *)
(* stack explicitly (one frame per running set), so that a step of the     *)
(* model is one step of the innermost running set: invoke its next         *)
(* callback, run its catch clause, or return.  Top-level operations are    *)
(* enabled only while the stack is empty.                                  *)
(***************************************************************************)
EXTENDS Integers, Sequences, FiniteSets, TLC

VARIABLES
    stores,     \* store id -> [kind, value, subs]: the closure state of a factory call
    stack,      \* the running set calls, outermost first
    exc,        \* TRUE while the callback just invoked by the top frame has thrown
    env,        \* the process environment the rethrow condition reads
    held,       \* the unsubscribe handle the caller has kept, and whether it was called
    GLOBAL,     \* the global registry: name -> store id
    html,       \* render target -> what its template placeholder was last replaced by
    thrown,     \* TRUE once some set call has ended by rethrowing
    log,        \* what the current (or last) top-level call did, in order
    input,      \* the string handed to the parser or resolver under study
    output,     \* what it returned
    loading,    \* where the load handler of initialize() is
    page,       \* the document it walks: the attributes of its elements, in order
    parsed      \* what the wiring functions take from the text of each attribute

vars == <<stores, stack, exc, env, held, GLOBAL, html, thrown, log,
          input, output, loading, page, parsed>>

\* The variables only the parser, the resolver and initialize() change, and
\* the parsed attributes, which nothing changes.
aux == <<input, output, loading, page, parsed>>

(***************************************************************************)
(* Bounds of the model.                                                    *)
(***************************************************************************)
MaxVal == 1
\* The longest string of the parser's alphabet handed to parseParams.
MaxLen == 3
\* The deepest call stack followed where nothing ends the recursion.
MaxDepth == 4

Vals == 0..MaxVal

(***************************************************************************)
(* Values, keys and callbacks.                                             *)
(***************************************************************************)
\* Subscription keys the caller uses.  "1" is an integer-like property name.
Keys == {"a", "1"}

\* Property names that are canonical array indices, and their numeric value.
IndexKeys == {"0", "1", "2"}
IsIndexKey(k) == k \in IndexKeys
IndexVal(k) == IF k = "0" THEN 0 ELSE IF k = "1" THEN 1 ELSE 2

\* Callbacks are closures; the model names the ones it uses by a record:
\* type, the store or element the closure captured (tgt), a captured string
\* (arg) and a number (n).
NoCb == [type |-> "none", tgt |-> "", arg |-> "", n |-> 0]
\* A callback that only observes its arguments; n tells two of them apart.
Rec(i) == [type |-> "rec", tgt |-> "", arg |-> "", n |-> i]
\* A callback that throws.
Raise == [type |-> "raise", tgt |-> "", arg |-> "", n |-> 0]
\* A callback that calls set(v) on store t with the value it was given.
Fwd(t) == [type |-> "fwd", tgt |-> t, arg |-> "", n |-> 0]
\* A callback that calls set(0) on store t unless it was given 0.
Clamp(t) == [type |-> "clamp", tgt |-> t, arg |-> "", n |-> 0]
\* A value that is not a function, passed where a callback is expected.
NotFn == [type |-> "notfn", tgt |-> "", arg |-> "", n |-> 0]

IsFunction(cb) == cb.type # "notfn"

(***************************************************************************)
(* The store: reactiveFactory and reactiveObjectFactory.  Both close over  *)
(* `store` (the value) and `subscriptions` (an object used as a table);    *)
(* subs lists the table's properties in the order they were created.       *)
(***************************************************************************)
StoreIds == {"s1", "s2", "s3", "s4", "s5"}

NoStore == [kind |-> "none", value |-> 0, subs |-> <<>>]
reactiveFactory(initialValue) ==
    [kind |-> "triple", value |-> initialValue, subs |-> <<>>]
reactiveObjectFactory(initialValue) ==
    [kind |-> "object", value |-> initialValue, subs |-> <<>>]

Entry(k, cb) == [key |-> k, cb |-> cb]

hasOwnProperty(subs, k) == \E i \in 1..Len(subs) : subs[i].key = k

\* A delete that empties the table.
DeleteEveryKey(subs, k) == <<>>

\* delete subscriptions[key]
DeleteKey(subs, k) == SelectSeq(subs, LAMBDA e : e.key # k)

\* unsubscribe(key): [threw, subs] is whether it threw and the table after it.
unsubscribe(subs, k) ==
    IF hasOwnProperty(subs, k)
    THEN [threw |-> FALSE, subs |-> DeleteKey(subs, k)]
    ELSE [threw |-> TRUE, subs |-> subs]

\* A subscribe without the duplicate check: the new callback replaces the old.
subscribeOverwriting(subs, k, cb) ==
    IF ~IsFunction(cb)
    THEN [threw |-> TRUE, subs |-> subs]
    ELSE [threw |-> FALSE, subs |-> Append(DeleteKey(subs, k), Entry(k, cb))]

\* subscribe(key, callback)
subscribe(subs, k, cb) ==
    IF ~IsFunction(cb)
    THEN [threw |-> TRUE, subs |-> subs]
    ELSE IF ~hasOwnProperty(subs, k)
    THEN [threw |-> FALSE, subs |-> Append(subs, Entry(k, cb))]
    ELSE [threw |-> TRUE, subs |-> subs]

\* Object.entries(subscriptions): own properties in JavaScript's property
\* order, the integer-like names first in ascending numeric order, then the
\* other names in the order they were created.
RECURSIVE SortIndex(_)
SortIndex(S) ==
    IF S = {} THEN <<>>
    ELSE LET m == CHOOSE e \in S :
                    \A f \in S : IndexVal(e.key) <= IndexVal(f.key)
         IN <<m>> \o SortIndex(S \ {m})

ObjectEntries(subs) ==
    SortIndex({subs[i] : i \in {j \in 1..Len(subs) : IsIndexKey(subs[j].key)}})
        \o SelectSeq(subs, LAMBDA e : ~IsIndexKey(e.key))

\* typeof process !== 'undefined' && process.env?.NODE_ENV !== 'production'
Envs == {"noprocess", "production", "development"}
RethrowsAlways(e) == TRUE
Rethrows(e) == e # "noprocess" /\ e # "production"

(***************************************************************************)
(* The call stack and the record of a top-level call.                      *)
(***************************************************************************)
\* A running set(v) on `store`: the entries it iterates (the array that
\* Object.entries returned when the loop began), the index of the next one,
\* the callback type that called it ("top": the caller of the library).
Frame(s, v, entries, fid, caller) ==
    [store |-> s, v |-> v, entries |-> entries, idx |-> 1, fid |-> fid,
     caller |-> caller]

\* One line of the record: n is the number of entries of an "enter".
Ev(ev, s, k, v, fid, cb) ==
    [ev |-> ev, store |-> s, key |-> k, v |-> v, fid |-> fid, cb |-> cb, n |-> 0]
EnterEv(s, v, fid, entries) ==
    [Ev("enter", s, "", v, fid, NoCb) EXCEPT !.n = Len(entries)]

NextFid(lg) == 1 + Cardinality({i \in 1..Len(lg) : lg[i].ev = "enter"})

Top == stack[Len(stack)]
Quiescent == stack = <<>>

NoHandle == [store |-> "", key |-> "", used |-> FALSE]
\* Nothing parsed or resolved; initialize() not called.
NoOutput == [done |-> FALSE, value |-> <<>>]
NotLoading == [phase |-> "idle", idx |-> 0]
\* No attribute was read.
NoAttributes == <<>>
\* A document without reactive elements.
NoPage == [input |-> FALSE, compute |-> <<>>, watch |-> <<>>, bind |-> <<>>]

\* A loop that does not move on to the next entry.
AdvancedNowhere == stack

\* The top frame with its index moved past the entry it is invoking.
Advanced == [stack EXCEPT ![Len(stack)].idx = @ + 1]
CurrentEntry == Top.entries[Top.idx]
CanInvoke == ~Quiescent /\ ~exc /\ Top.idx <= Len(Top.entries)
CallEvent == Ev("call", Top.store, CurrentEntry.key, Top.v, Top.fid, CurrentEntry.cb)

\* A set that notifies without assigning.
AssignNothing(st, s, v) == st

\* store = v, the first statement of set.
Assign(st, s, v) == [st EXCEPT ![s].value = v]

\* A deferred notification: the new frame waits under its caller's.
PushDeferred(stk, f) ==
    IF stk = <<>> THEN <<f>>
    ELSE SubSeq(stk, 1, Len(stk) - 1) \o <<f, stk[Len(stk)]>>

\* Where a frame entered by a call from inside a callback goes on the stack:
\* on top, so that it runs before its caller goes on.
Push(stk, f) == Append(stk, f)

\* set(v) on store s, called by `caller` with stack stk and log lg: assign,
\* take the entries, begin the loop.
CallSet(s, v, caller, stk, lg) ==
    /\ stores' = Assign(stores, s, v)
    /\ stack' = Push(stk, Frame(s, v, ObjectEntries(stores[s].subs), NextFid(lg), caller))
    /\ log' = Append(lg, EnterEv(s, v, NextFid(lg), ObjectEntries(stores[s].subs)))

(***************************************************************************)
(* Top-level calls on a store.                                             *)
(***************************************************************************)
\* set(v), or `.state = v`, called by the user of the library.
Set(s, v) ==
    /\ Quiescent
    /\ stores[s].kind # "none"
    /\ CallSet(s, v, "top", <<>>, <<Ev("set", s, "", v, 0, NoCb)>>)
    /\ UNCHANGED <<aux, exc, env, held, GLOBAL, html, thrown>>

Outcome(threw) == IF threw THEN "threw" ELSE "returned"

\* subscribe(k, cb) called by the user, who keeps the returned handle or not.
Subscribe(s, k, cb, keep) ==
    /\ Quiescent
    /\ stores[s].kind # "none"
    /\ LET r == subscribe(stores[s].subs, k, cb) IN
        /\ stores' = [stores EXCEPT ![s].subs = r.subs]
        /\ held' = IF keep /\ ~r.threw
                   THEN [store |-> s, key |-> k, used |-> FALSE]
                   ELSE held
        /\ log' = <<Ev(IF IsFunction(cb) THEN "subscribe" ELSE "subscribe-notfn",
                       s, k, 0, 0, NoCb),
                    Ev(Outcome(r.threw), s, k, 0, 0, NoCb)>>
    /\ UNCHANGED <<aux, stack, exc, env, GLOBAL, html, thrown>>

\* unsubscribe(k) called by the user: only the object form exposes it.
Unsubscribe(s, k) ==
    /\ Quiescent
    /\ stores[s].kind = "object"
    /\ LET r == unsubscribe(stores[s].subs, k) IN
        /\ stores' = [stores EXCEPT ![s].subs = r.subs]
        /\ log' = <<Ev("unsubscribe", s, k, 0, 0, NoCb),
                    Ev(Outcome(r.threw), s, k, 0, 0, NoCb)>>
    /\ UNCHANGED <<aux, stack, exc, env, held, GLOBAL, html, thrown>>

\* The handle `() => unsubscribe(key)` that subscribe returned, called.
CallHandle ==
    /\ Quiescent
    /\ held # NoHandle
    /\ LET r == unsubscribe(stores[held.store].subs, held.key) IN
        /\ stores' = [stores EXCEPT ![held.store].subs = r.subs]
        /\ log' = <<Ev(IF held.used THEN "handle-again" ELSE "handle",
                       held.store, held.key, 0, 0, NoCb),
                    Ev(Outcome(r.threw), held.store, held.key, 0, 0, NoCb)>>
    /\ held' = [held EXCEPT !.used = TRUE]
    /\ UNCHANGED <<aux, stack, exc, env, GLOBAL, html, thrown>>

(***************************************************************************)
(* Steps of the innermost running set: the body of `for (const [key,       *)
(* callback] of Object.entries(subscriptions))`.                           *)
(***************************************************************************)
\* The callbacks that, given v, return without calling the library: an
\* observer, the input element's "_internal_sync-dom-element", a clamp given 0.
JustReturns(cb, v) ==
    cb.type \in {"rec", "sync"} \/ (cb.type = "clamp" /\ v = 0)

\* callback(key, v) where the callback returns without calling the library.
InvokeRec ==
    /\ CanInvoke
    /\ JustReturns(CurrentEntry.cb, Top.v)
    /\ stack' = Advanced
    /\ log' = Append(log, CallEvent)
    /\ UNCHANGED <<aux, stores, exc, env, held, GLOBAL, html, thrown>>

\* callback(key, v) where the callback throws.
InvokeRaise ==
    /\ CanInvoke
    /\ CurrentEntry.cb.type = "raise"
    /\ stack' = Advanced
    /\ exc' = TRUE
    /\ log' = Append(log, CallEvent)
    /\ UNCHANGED <<aux, stores, env, held, GLOBAL, html, thrown>>

\* callback(key, v) where the callback calls set on a store.
InvokeSetter ==
    /\ CanInvoke
    /\ \/ /\ CurrentEntry.cb.type = "fwd"
          /\ CallSet(CurrentEntry.cb.tgt, Top.v, "fwd", Advanced, Append(log, CallEvent))
       \/ /\ CurrentEntry.cb.type = "clamp"
          /\ Top.v # 0
          /\ CallSet(CurrentEntry.cb.tgt, 0, "clamp", Advanced, Append(log, CallEvent))
    /\ UNCHANGED <<aux, exc, env, held, GLOBAL, html, thrown>>

\* No callback catches what the set it called throws.
CatchesNothing(caller) == FALSE

\* Whether a callback of this type catches what the set it called throws.
Catches(caller) == caller = "watch"

\* The catch clause of the loop: log, and rethrow in development.
CatchError ==
    /\ ~Quiescent
    /\ exc
    /\ LET f == Top
           lg == Append(log, Ev("error", f.store, f.entries[f.idx - 1].key, f.v, f.fid, NoCb))
       IN IF Rethrows(env)
          THEN /\ stack' = SubSeq(stack, 1, Len(stack) - 1)
               /\ thrown' = TRUE
               /\ exc' = (f.caller # "top" /\ ~Catches(f.caller))
               /\ log' = IF f.caller = "top"
                         THEN lg \o <<Ev("throw", f.store, "", f.v, f.fid, NoCb),
                                      Ev("threw", f.store, "", f.v, 0, NoCb)>>
                         ELSE Append(lg, Ev("throw", f.store, "", f.v, f.fid, NoCb))
          ELSE /\ stack' = stack
               /\ exc' = FALSE
               /\ thrown' = thrown
               /\ log' = lg
    /\ UNCHANGED <<aux, stores, env, held, GLOBAL, html>>

\* The loop is over: set returns to its caller.
SetReturn ==
    /\ ~Quiescent
    /\ ~exc
    /\ Top.idx > Len(Top.entries)
    /\ stack' = SubSeq(stack, 1, Len(stack) - 1)
    /\ log' = IF Top.caller = "top"
              THEN log \o <<Ev("exit", Top.store, "", Top.v, Top.fid, NoCb),
                            Ev("returned", Top.store, "", Top.v, 0, NoCb)>>
              ELSE Append(log, Ev("exit", Top.store, "", Top.v, Top.fid, NoCb))
    /\ UNCHANGED <<aux, stores, exc, env, held, GLOBAL, html, thrown>>

(***************************************************************************)
(* The store on its own: two stores and the callbacks a caller registers.  *)
(***************************************************************************)
\* The callbacks the caller subscribes on s1.
UserCallbacks == {Rec(1), Raise, Fwd("s2"), Clamp("s1"), NotFn}

\* s2 is a store other callbacks write to; its subscribers are in place.
S2Subs == { <<Entry("p", Rec(2))>>,
            <<Entry("p", Raise), Entry("q", Rec(2))>> }

GNames == {"x", "y", "t"}
Elems == {"e1", "e2", "e3", "e4", "e5"}
NoGlobal == [g \in GNames |-> "none"]
NoHtml == [e \in Elems |-> 0]

InitStore ==
    /\ \E k \in {"triple", "object"}, ss \in S2Subs :
          stores = [s \in StoreIds |->
                      IF s = "s1" THEN [kind |-> k, value |-> 0, subs |-> <<>>]
                      ELSE IF s = "s2" THEN [reactiveFactory(0) EXCEPT !.subs = ss]
                      ELSE NoStore]
    /\ stack = <<>>
    /\ exc = FALSE
    /\ env \in Envs
    /\ held = NoHandle
    /\ GLOBAL = NoGlobal
    /\ html = NoHtml
    /\ thrown = FALSE
    /\ log = <<>>
    /\ input = <<>>
    /\ output = NoOutput
    /\ loading = NotLoading
    /\ page = NoPage
    /\ parsed = NoAttributes

NextStore ==
    \/ \E s \in {"s1", "s2"}, v \in Vals : Set(s, v)
    \/ \E k \in Keys, cb \in UserCallbacks, keep \in BOOLEAN : Subscribe("s1", k, cb, keep)
    \/ \E k \in Keys : Unsubscribe("s1", k)
    \/ CallHandle
    \/ InvokeRec
    \/ InvokeRaise
    \/ InvokeSetter
    \/ CatchError
    \/ SetReturn

SpecStore == InitStore /\ [][NextStore]_vars

(***************************************************************************)
(* Strings.  A string the code scans is a sequence of characters.          *)
(***************************************************************************)
Quote2 == "\""
Quote1 == "'"
\* \s, as far as the strings of the model go.
IsSpace(c) == c = " "
\* \w
WordChars ==
    {"a", "b", "c", "d", "e", "f", "g", "h", "i", "j", "k", "l", "m", "n", "o",
     "p", "q", "r", "s", "t", "u", "v", "w", "x", "y", "z",
     "A", "B", "C", "D", "E", "F", "G", "H", "I", "J", "K", "L", "M", "N", "O",
     "P", "Q", "R", "S", "T", "U", "V", "W", "X", "Y", "Z",
     "0", "1", "2", "3", "4", "5", "6", "7", "8", "9", "_"}

\* String.prototype.trim
RECURSIVE trimStart(_)
trimStart(cs) ==
    IF cs # <<>> /\ IsSpace(Head(cs)) THEN trimStart(Tail(cs)) ELSE cs
RECURSIVE trimEnd(_)
trimEnd(cs) ==
    IF cs # <<>> /\ IsSpace(cs[Len(cs)])
    THEN trimEnd(SubSeq(cs, 1, Len(cs) - 1))
    ELSE cs
trim(cs) == trimEnd(trimStart(cs))

\* The variables of parseParams before the loop.
ScanStart ==
    [params |-> <<>>, current |-> <<>>, depth |-> 0, inString |-> FALSE,
     stringChar |-> ""]

\* A loop body that splits on every comma outside quotes, whatever the depth.
ScanCharAnyDepth(st, char) ==
    IF ~st.inString /\ char \in {Quote2, Quote1}
    THEN [st EXCEPT !.inString = TRUE, !.stringChar = char,
                    !.current = Append(@, char)]
    ELSE IF st.inString /\ char = st.stringChar
    THEN [st EXCEPT !.inString = FALSE, !.current = Append(@, char)]
    ELSE IF ~st.inString /\ char = ","
    THEN [st EXCEPT !.params = Append(@, trim(st.current)), !.current = <<>>]
    ELSE [st EXCEPT !.current = Append(@, char)]

\* The body of the loop of parseParams, for one character.
ScanChar(st, char) ==
    IF ~st.inString /\ char \in {Quote2, Quote1}
    THEN [st EXCEPT !.inString = TRUE, !.stringChar = char,
                    !.current = Append(@, char)]
    ELSE IF st.inString /\ char = st.stringChar
    THEN [st EXCEPT !.inString = FALSE, !.current = Append(@, char)]
    ELSE IF ~st.inString /\ char = "("
    THEN [st EXCEPT !.depth = @ + 1, !.current = Append(@, char)]
    ELSE IF ~st.inString /\ char = ")"
    THEN [st EXCEPT !.depth = @ - 1, !.current = Append(@, char)]
    ELSE IF ~st.inString /\ st.depth = 0 /\ char = ","
    THEN [st EXCEPT !.params = Append(@, trim(st.current)), !.current = <<>>]
    ELSE [st EXCEPT !.current = Append(@, char)]

\* for ( let i = 0; i < paramsStr.length; i++ )
RECURSIVE Scan(_, _, _)
Scan(paramsStr, i, st) ==
    IF i > Len(paramsStr) THEN st
    ELSE Scan(paramsStr, i + 1, ScanChar(st, paramsStr[i]))

\* parseParams( paramsStr )
parseParams(paramsStr) ==
    IF paramsStr = <<>> THEN <<>>
    ELSE LET st == Scan(paramsStr, 1, ScanStart) IN
         IF trim(st.current) # <<>>
         THEN Append(st.params, trim(st.current))
         ELSE st.params

(***************************************************************************)
(* The registries, the document and the rules written in attributes.       *)
(***************************************************************************)
\* reactiveObjectFactory( "" ) and `return ''`: the empty string.
EmptyString == -1
\* `return undefined`
Undefined == -2
\* A resolved argument that is a string or a boolean, as the page's functions
\* see it: not a number.
NonNumber == -3

\* String.prototype.match returning null
null == <<"null">>

\* The string of a sequence of characters.
RECURSIVE Str(_)
Str(cs) == IF cs = <<>> THEN "" ELSE Head(cs) \o Str(Tail(cs))

\* The characters of the attribute values of the page.
Chars(s) ==
    CASE s = "t|sum(GLOBAL.y, element(#a))" ->
           <<"t", "|", "s", "u", "m", "(", "G", "L", "O", "B", "A", "L",
           ".", "y", ",", " ", "e", "l", "e", "m", "e", "n",
           "t", "(", "#", "a", ")", ")">>
      [] s = "t|sum(GLOBAL.y, GLOBAL.x)" ->
           <<"t", "|", "s", "u", "m", "(", "G", "L", "O", "B", "A", "L",
           ".", "y", ",", " ", "G", "L", "O", "B", "A", "L", ".", "x", ")">>
      [] s = "t|picky(GLOBAL.x)" ->
           <<"t", "|", "p", "i", "c", "k", "y", "(", "G", "L", "O", "B",
           "A", "L", ".", "x", ")">>
      [] s = "t|picky(2)" ->
           <<"t", "|", "p", "i", "c", "k", "y", "(", "2", ")">>
      [] s = "t|" ->
           <<"t", "|">>
      [] s = "|picky(GLOBAL.x)" ->
           <<"|", "p", "i", "c", "k", "y", "(", "G", "L", "O", "B", "A",
           "L", ".", "x", ")">>
      [] s = "t|picky" ->
           <<"t", "|", "p", "i", "c", "k", "y">>
      [] s = "t|(GLOBAL.x)" ->
           <<"t", "|", "(", "G", "L", "O", "B", "A", "L", ".", "x", ")">>
      [] s = "t|nofn(GLOBAL.x)" ->
           <<"t", "|", "n", "o", "f", "n", "(", "G", "L", "O", "B", "A",
           "L", ".", "x", ")">>
      [] s = "t|alert(GLOBAL.x)" ->
           <<"t", "|", "a", "l", "e", "r", "t", "(", "G", "L", "O", "B",
           "A", "L", ".", "x", ")">>
      [] s = "t|constructor(GLOBAL.x)" ->
           <<"t", "|", "c", "o", "n", "s", "t", "r", "u", "c", "t", "o",
           "r", "(", "G", "L", "O", "B", "A", "L", ".", "x",
           ")">>
      [] s = "GLOBAL.x|GLOBAL.y|picky" ->
           <<"G", "L", "O", "B", "A", "L", ".", "x", "|", "G", "L", "O",
           "B", "A", "L", ".", "y", "|", "p", "i", "c", "k",
           "y">>
      [] s = "GLOBAL.x|GLOBAL.y|keep" ->
           <<"G", "L", "O", "B", "A", "L", ".", "x", "|", "G", "L", "O",
           "B", "A", "L", ".", "y", "|", "k", "e", "e", "p">>
      [] s = "GLOBAL.y|GLOBAL.x|keep" ->
           <<"G", "L", "O", "B", "A", "L", ".", "y", "|", "G", "L", "O",
           "B", "A", "L", ".", "x", "|", "k", "e", "e", "p">>
      [] s = "GLOBAL.x|GLOBAL.y" ->
           <<"G", "L", "O", "B", "A", "L", ".", "x", "|", "G", "L", "O",
           "B", "A", "L", ".", "y">>
      [] s = "GLOBAL.x|GLOBAL.y|nofn" ->
           <<"G", "L", "O", "B", "A", "L", ".", "x", "|", "G", "L", "O",
           "B", "A", "L", ".", "y", "|", "n", "o", "f", "n">>
      [] s = "GLOBAL.x|GLOBAL.y|alert" ->
           <<"G", "L", "O", "B", "A", "L", ".", "x", "|", "G", "L", "O",
           "B", "A", "L", ".", "y", "|", "a", "l", "e", "r",
           "t">>
      [] s = "GLOBAL.z|GLOBAL.y|picky" ->
           <<"G", "L", "O", "B", "A", "L", ".", "z", "|", "G", "L", "O",
           "B", "A", "L", ".", "y", "|", "p", "i", "c", "k",
           "y">>
      [] s = "GLOBAL.x|#b|picky" ->
           <<"G", "L", "O", "B", "A", "L", ".", "x", "|", "#", "b", "|",
           "p", "i", "c", "k", "y">>
      [] s = "GLOBAL.y|y" ->
           <<"G", "L", "O", "B", "A", "L", ".", "y", "|", "y">>
      [] s = "GLOBAL.x|y" ->
           <<"G", "L", "O", "B", "A", "L", ".", "x", "|", "y">>
      [] s = "#a|a" ->
           <<"#", "a", "|", "a">>
      [] s = "#a|name" ->
           <<"#", "a", "|", "n", "a", "m", "e">>
      [] s = "GLOBAL.x|x" ->
           <<"G", "L", "O", "B", "A", "L", ".", "x", "|", "x">>

\* String.prototype.split( sep ), sep one character
RECURSIVE split(_, _)
split(cs, sep) ==
    IF \A i \in 1..Len(cs) : cs[i] # sep THEN <<cs>>
    ELSE LET i == CHOOSE k \in 1..Len(cs) :
                     cs[k] = sep /\ \A m \in 1..(k - 1) : cs[m] # sep
         IN <<SubSeq(cs, 1, i - 1)>> \o split(SubSeq(cs, i + 1, Len(cs)), sep)

\* const [a, b, c] = parts: the n-th, empty when there is none (undefined
\* and '' are both falsy where the code tests a part).
Part(parts, n) == IF n <= Len(parts) THEN parts[n] ELSE <<>>

\* String.prototype.includes
Includes(cs, sub) ==
    \E i \in 1..(Len(cs) - Len(sub) + 1) : SubSeq(cs, i, i + Len(sub) - 1) = sub
StartsWith(cs, pre) == Len(cs) >= Len(pre) /\ SubSeq(cs, 1, Len(pre)) = pre

\* The longest prefix of cs made of \w characters.
RECURSIVE LeadingWord(_)
LeadingWord(cs) ==
    IF cs # <<>> /\ Head(cs) \in WordChars
    THEN <<Head(cs)>> \o LeadingWord(Tail(cs))
    ELSE <<>>

\* Properties every object literal inherits: GLOBAL = {} and
\* COMPUTE_FUNCTIONS = {} answer to these names too; they are functions.
ObjectPrototype == {"constructor"}
\* Functions that are properties of window without the page registering them.
WindowFunctions == {"alert"}

\* The functions the page registered in COMPUTE_FUNCTIONS.  sum adds two
\* numbers (and gives undefined when one is not a number); picky throws
\* when given 1 and adds 2 to any other number; keep returns the value it is
\* given.
COMPUTE_FUNCTIONS == {"sum", "picky", "keep"}

\* COMPUTE_FUNCTIONS[name] || window[name], and typeof it === 'function'
IsFunctionName(name) ==
    name \in COMPUTE_FUNCTIONS \cup ObjectPrototype \cup WindowFunctions

FnRaises(name, args) == name = "picky" /\ args[1] = 1
FnApply(name, args) ==
    IF name = "sum"
    THEN (IF args[1] >= 0 /\ args[2] >= 0 THEN args[1] + args[2] ELSE Undefined)
    ELSE IF name = "picky"
    THEN (IF args[1] >= 0 THEN args[1] + 2 ELSE args[1])
    ELSE IF name \in {"constructor", "keep"} THEN args[1]
    ELSE Undefined

\* The data-compute attributes the page wires at run time.
ComputeRules == {"t|sum(GLOBAL.y, element(#a))", "t|picky(GLOBAL.x)"}
\* The data-compute attributes an element may carry: those, and rules with a
\* part missing, a call that is not name(...), a name that is no function,
\* a function of window, an inherited name, a literal argument.
AllComputeRules ==
    ComputeRules \cup {"t|", "|picky(GLOBAL.x)", "t|picky", "t|(GLOBAL.x)",
                       "t|nofn(GLOBAL.x)", "t|alert(GLOBAL.x)",
                       "t|constructor(GLOBAL.x)", "t|picky(2)"}

\* Two data-compute attributes with the same target key and a source in
\* common, GLOBAL.x: the only source of one, the second source of the other.
SharedSourceRules == {"t|picky(GLOBAL.x)", "t|sum(GLOBAL.y, GLOBAL.x)"}

\* functionCall.match( /^(\w+)\s*\((.*)\)$/ ): [name, params], or null.
functionMatch(call) ==
    LET name == LeadingWord(call)
        rest == trimStart(SubSeq(call, Len(name) + 1, Len(call)))
    IN IF name # <<>> /\ Len(rest) >= 2 /\ Head(rest) = "("
          /\ rest[Len(rest)] = ")"
       THEN <<name, SubSeq(rest, 2, Len(rest) - 1)>>
       ELSE null

\* paramStr.match( /^element\s*\(\s*([^)]+)\s*\)$/ )[1].trim(): the
\* selector, or null.
elementMatch(p) ==
    LET rest == trimStart(SubSeq(p, 8, Len(p)))
        inner == SubSeq(rest, 2, Len(rest) - 1)
    IN IF StartsWith(p, <<"e", "l", "e", "m", "e", "n", "t">>)
          /\ Len(rest) >= 3 /\ Head(rest) = "(" /\ rest[Len(rest)] = ")"
          /\ \A i \in 1..Len(inner) : inner[i] # ")"
       THEN trim(inner)
       ELSE null
\* paramStr.match( /^GLOBAL\.(\w+)$/ )[1]: the key, or null.
globalMatch(p) ==
    LET key == SubSeq(p, 8, Len(p)) IN
    IF StartsWith(p, <<"G", "L", "O", "B", "A", "L", ".">>)
       /\ key # <<>> /\ \A i \in 1..Len(key) : key[i] \in WordChars
    THEN key
    ELSE null

\* GLOBAL.hasOwnProperty( key )
HasOwn(g, key) == key \in DOMAIN g /\ g[key] # "none"

\* GLOBAL[key]: the store registered under key, "inherited" for a property
\* of Object.prototype, "none" (undefined) otherwise.
GlobalProp(g, key) ==
    IF HasOwn(g, key) THEN g[key]
    ELSE IF key \in ObjectPrototype THEN "inherited"
    ELSE "none"

Digits == {"0", "1", "2", "3", "4", "5", "6", "7", "8", "9"}
DigitVal(c) ==
    CASE c = "0" -> 0 [] c = "1" -> 1 [] c = "2" -> 2 [] c = "3" -> 3
      [] c = "4" -> 4 [] c = "5" -> 5 [] c = "6" -> 6 [] c = "7" -> 7
      [] c = "8" -> 8 [] c = "9" -> 9
RECURSIVE NumberOf(_)
NumberOf(cs) ==
    IF cs = <<>> THEN 0
    ELSE 10 * NumberOf(SubSeq(cs, 1, Len(cs) - 1)) + DigitVal(cs[Len(cs)])

\* document.querySelector( selector ) throws a SyntaxError: of the selectors
\* the model meets, the empty one and those that begin with a digit.
InvalidSelector(selector) == selector = <<>> \/ Head(selector) \in Digits

\* document.querySelector( selector ).state: the store of the input element
\* #a, "none" while makeReactiveInput has not run on it, and "none" for a
\* selector that finds no element.
ElementState(st, selector) ==
    IF selector = <<"#", "a">> /\ st["s3"].kind # "none" THEN "s3" ELSE "none"

\* What resolveParam gives: a value read from a store, undefined, a parsed
\* number, a parsed string (str is its content), another JSON literal, the
\* raw string, or an exception.
Resolved(kind, num, str) == [kind |-> kind, num |-> num, str |-> str]

\* JSON.parse( paramStr ), for integers, strings without escapes, true,
\* false and null; "throws" stands for its SyntaxError.
JSONparse(cs) ==
    IF cs # <<>> /\ (\A i \in 1..Len(cs) : cs[i] \in Digits)
       /\ (Len(cs) = 1 \/ Head(cs) # "0")
    THEN Resolved("number", NumberOf(cs), "")
    ELSE IF Len(cs) >= 2 /\ Head(cs) = Quote2 /\ cs[Len(cs)] = Quote2
            /\ \A i \in 2..(Len(cs) - 1) : cs[i] # Quote2
    THEN Resolved("string", 0, Str(SubSeq(cs, 2, Len(cs) - 1)))
    ELSE IF Str(cs) \in {"true", "false", "null"}
    THEN Resolved("literal", 0, Str(cs))
    ELSE Resolved("throws", 0, "")

\* The patterns resolveParam tries on paramStr.trim(), in its order: the
\* selector of element(...), the key of GLOBAL.key, the JSON literal, and
\* the string itself.
Pattern(paramStr) ==
    LET p == trim(paramStr) IN
    [element |-> elementMatch(p),
     global |-> globalMatch(p),
     key |-> IF globalMatch(p) = null THEN "" ELSE Str(globalMatch(p)),
     json |-> JSONparse(p),
     raw |-> Str(p)]

\* resolveParam, from the first pattern that matched.
resolve(st, g, pat) ==
    IF pat.element # null
    THEN (IF InvalidSelector(pat.element) THEN Resolved("raised", 0, "")
          ELSE IF ElementState(st, pat.element) # "none"
          THEN Resolved("state", st[ElementState(st, pat.element)].value, "")
          ELSE Resolved("undefined", 0, ""))
    ELSE IF pat.global # null
    THEN (IF GlobalProp(g, pat.key) = "none" THEN Resolved("undefined", 0, "")
          ELSE IF GlobalProp(g, pat.key) = "inherited" THEN Resolved("raised", 0, "")
          ELSE Resolved("state", st[GlobalProp(g, pat.key)].value, ""))
    ELSE IF pat.json.kind # "throws" THEN pat.json
    ELSE Resolved("raw", 0, pat.raw)

\* resolveParam( paramStr )
resolveParam(st, g, paramStr) == resolve(st, g, Pattern(paramStr))

\* A resolved argument as the page's functions take it.
ArgValue(r) ==
    IF r.kind \in {"state", "number"} THEN r.num
    ELSE IF r.kind = "undefined" THEN Undefined
    ELSE NonNumber

\* The keys of a Set built by add(), in the order they were first added.
RECURSIVE Distinct(_)
Distinct(q) ==
    IF q = <<>> THEN <<>>
    ELSE <<Head(q)>> \o Distinct(SelectSeq(Tail(q), LAMBDA x : x # Head(q)))

\* What setupComputed takes from its rule before it wires anything: the two
\* parts, the match of the function call, the parameter strings with their
\* patterns, and the dependencies.
parseRule(cs) ==
    LET parts == split(cs, "|")
        fm == functionMatch(Part(parts, 2))
        ps == IF fm = null THEN <<>> ELSE parseParams(trim(fm[2]))
        gs == SelectSeq([i \in 1..Len(ps) |-> globalMatch(ps[i])],
                        LAMBDA k : k # null)
    IN [targetKey |-> Str(Part(parts, 1)),
        functionCall |-> Part(parts, 2),
        matched |-> fm # null,
        functionName |-> IF fm = null THEN "" ELSE Str(fm[1]),
        paramStrings |-> ps,
        patterns |-> [i \in 1..Len(ps) |-> Pattern(ps[i])],
        globals |-> Distinct([i \in 1..Len(gs) |-> Str(gs[i])]),
        elements |-> Distinct(SelectSeq([i \in 1..Len(ps) |-> elementMatch(ps[i])],
                                        LAMBDA k : k # null))]

\* const [targetKey, functionCall] = computeRule.split( "|" )
targetKey(rule) == parsed.compute[rule].targetKey
functionCall(rule) == parsed.compute[rule].functionCall
\* functionMatch[1]
functionName(rule) == parsed.compute[rule].functionName
\* parseParams( functionMatch[2].trim() )
paramStrings(rule) == parsed.compute[rule].paramStrings

\* paramStrings.map( resolveParam )
ResolvedParams(st, g, rule) ==
    [i \in 1..Len(paramStrings(rule)) |->
        ArgValue(resolve(st, g, parsed.compute[rule].patterns[i]))]
\* Some resolveParam of the rule throws.
ResolveRaises(st, g, rule) ==
    \E i \in 1..Len(paramStrings(rule)) :
        resolve(st, g, parsed.compute[rule].patterns[i]).kind = "raised"

\* evaluateExpression(), of the rule whose computed store is c.
evaluateExpression(st, g, rule, c) ==
    IF ResolveRaises(st, g, rule)
       \/ FnRaises(functionName(rule), ResolvedParams(st, g, rule))
    THEN EmptyString
    ELSE FnApply(functionName(rule), ResolvedParams(st, g, rule))

\* dependencies.globals (the keys) and dependencies.elements (the selectors)
DependencyGlobals(rule) == parsed.compute[rule].globals
DependencyElements(rule) == parsed.compute[rule].elements

\* The selectors setupSubscriptions hands to querySelector before one throws.
RECURSIVE ValidPrefix(_)
ValidPrefix(sels) ==
    IF sels = <<>> \/ InvalidSelector(Head(sels)) THEN <<>>
    ELSE <<Head(sels)>> \o ValidPrefix(Tail(sels))
\* document.querySelector( selector ) of setupSubscriptions throws.
SelectorRaises(rule) ==
    \E i \in 1..Len(DependencyElements(rule)) :
        InvalidSelector(DependencyElements(rule)[i])

\* A setupSubscriptions that forgets the elements.
DependencyStoresGlobalsOnly(st, g, rule) ==
    LET gs == SelectSeq(DependencyGlobals(rule),
                        LAMBDA k : GlobalProp(g, k) \notin {"none", "inherited"})
    IN [i \in 1..Len(gs) |-> g[gs[i]]]

\* The stores setupSubscriptions subscribes to, in its order: the globals that
\* exist (and have a subscribe), then the elements that are reactive.
DependencyStores(st, g, rule) ==
    LET gs == SelectSeq(DependencyGlobals(rule),
                        LAMBDA k : GlobalProp(g, k) \notin {"none", "inherited"})
        es == SelectSeq(ValidPrefix(DependencyElements(rule)),
                        LAMBDA sel : ElementState(st, sel) # "none")
    IN [i \in 1..Len(gs) |-> g[gs[i]]]
           \o [i \in 1..Len(es) |-> ElementState(st, es[i])]

\* The subscribe calls of setupSubscriptions, one after the other, up to the
\* first that throws: [threw, stores, done] with the stores subscribed to.
RECURSIVE SubscribeEach(_, _, _, _, _)
SubscribeEach(st, ds, k, cb, done) ==
    IF ds = <<>> THEN [threw |-> FALSE, stores |-> st, done |-> done]
    ELSE LET r == subscribe(st[Head(ds)].subs, k, cb) IN
         IF r.threw THEN [threw |-> TRUE, stores |-> st, done |-> done]
         ELSE SubscribeEach([st EXCEPT ![Head(ds)].subs = r.subs], Tail(ds), k, cb,
                            Append(done, Head(ds)))

ComputedCb(c, rule) == [type |-> "computed", tgt |-> c, arg |-> rule, n |-> 0]

\* The stores reactiveObjectFactory( "" ) of setupComputed can still make.
ComputedPool == {"s4", "s5"}
FreshStore == IF stores["s4"].kind = "none" THEN "s4" ELSE "s5"

\* A setupComputed that leaves the target with its default value for the first
\* notification to fill.
InitialValueLazy(st, g, rule, c) == EmptyString

\* computed.state = evaluateExpression(), at the end of setupComputed.
InitialValue(st, g, rule, c) == evaluateExpression(st, g, rule, c)

\* A setupComputed that looks its function up only when it evaluates.
computeErrorNoLookup(rule) ==
    IF targetKey(rule) = "" \/ functionCall(rule) = <<>> THEN "format"
    ELSE IF ~parsed.compute[rule].matched THEN "call"
    ELSE "none"

\* The throws of setupComputed before it builds anything: a missing part, a
\* function call that does not match, a name that is no function.
computeError(rule) ==
    IF targetKey(rule) = "" \/ functionCall(rule) = <<>> THEN "format"
    ELSE IF ~parsed.compute[rule].matched THEN "call"
    ELSE IF ~IsFunctionName(functionName(rule)) THEN "function"
    ELSE "none"

\* setupComputed( element ), element carrying data-compute = rule.  When a
\* subscribe throws after others were made, the triggers already subscribed
\* keep the computed object of this call alive, with its default value.
setupComputed(rule) ==
    /\ Quiescent
    /\ computeError(rule) # "none" \/ \E c \in ComputedPool : stores[c].kind = "none"
    /\ IF computeError(rule) # "none"
       THEN /\ stores' = stores
            /\ GLOBAL' = GLOBAL
            /\ log' = <<Ev("setupComputed", "none", rule, 0, 0, NoCb),
                        Ev("threw", "none", rule, 0, 0, NoCb)>>
       ELSE
       LET c == FreshStore
           key == "computed-" \o targetKey(rule)
           r == SubscribeEach(stores, DependencyStores(stores, GLOBAL, rule), key,
                              ComputedCb(c, rule), <<>>)
           val == InitialValue(r.stores, GLOBAL, rule, c)
           subsLog == [i \in 1..Len(r.done) |-> Ev("sub", r.done[i], key, 0, 0, NoCb)]
       IN IF r.threw \/ SelectorRaises(rule)
          THEN /\ stores' = IF r.done = <<>> THEN r.stores
                             ELSE [r.stores EXCEPT ![c] = reactiveObjectFactory(EmptyString)]
               /\ GLOBAL' = GLOBAL
               /\ log' = <<Ev("setupComputed", c, rule, 0, 0, NoCb)>> \o subsLog
                            \o <<Ev("threw", c, rule, 0, 0, NoCb)>>
          ELSE /\ stores' = [r.stores EXCEPT ![c] =
                                [reactiveObjectFactory(EmptyString) EXCEPT !.value = val]]
               /\ GLOBAL' = [GLOBAL EXCEPT ![targetKey(rule)] = c]
               /\ log' = <<Ev("setupComputed", c, rule, 0, 0, NoCb)>> \o subsLog
                            \o <<Ev("fn", c, functionName(rule), val, 0, NoCb),
                                 EnterEv(c, val, 1, <<>>),
                                 Ev("exit", c, "", val, 1, NoCb),
                                 Ev("returned", c, rule, 0, 0, NoCb)>>
    /\ UNCHANGED <<stack, exc, env, held, html, thrown>>

SetupComputed(rule) == setupComputed(rule) /\ UNCHANGED aux

\* The trigger `() => { computed.state = evaluateExpression(); }`.
InvokeComputed ==
    /\ CanInvoke
    /\ CurrentEntry.cb.type = "computed"
    /\ LET c == CurrentEntry.cb.tgt
           rule == CurrentEntry.cb.arg
           val == evaluateExpression(stores, GLOBAL, rule, c)
       IN CallSet(c, val, "computed", Advanced,
                  log \o <<CallEvent, Ev("fn", c, functionName(rule), val, Top.fid, NoCb)>>)
    /\ UNCHANGED <<aux, exc, env, held, GLOBAL, html, thrown>>

\* The data-watch attributes of the page: source|target|function.
WatchRules == {"GLOBAL.x|GLOBAL.y|picky"}
\* watchRule.split( "|" )
\* The data-watch attributes an element may carry: those, and rules with a
\* part missing, a name that is no function, a function of window, a source
\* or a target that does not exist.
AllWatchRules ==
    WatchRules \cup {"GLOBAL.x|GLOBAL.y", "GLOBAL.x|GLOBAL.y|nofn",
                     "GLOBAL.x|GLOBAL.y|alert", "GLOBAL.z|GLOBAL.y|picky",
                     "GLOBAL.x|#b|picky"}
\* Two data-watch attributes that feed each other: GLOBAL.x into GLOBAL.y
\* and GLOBAL.y into GLOBAL.x.
CycleRules == {"GLOBAL.x|GLOBAL.y|keep", "GLOBAL.y|GLOBAL.x|keep"}
\* const [sourceKey, targetKey, expression] = watchRule.split( "|" )
parseWatch(cs) ==
    [sourceKey |-> Part(split(cs, "|"), 1),
     targetKey |-> Part(split(cs, "|"), 2),
     expression |-> Str(Part(split(cs, "|"), 3))]
watchSourceKey(rule) == parsed.watch[rule].sourceKey
watchTargetKey(rule) == parsed.watch[rule].targetKey
watchExpression(rule) == parsed.watch[rule].expression

\* The reactive a key of a watch rule names: GLOBAL[key.split( '.' )[1]] when
\* the key includes 'GLOBAL.', else the state of the element it selects.
WatchReactive(st, g, key) ==
    IF Includes(key, <<"G", "L", "O", "B", "A", "L", ".">>)
    THEN GlobalProp(g, Str(Part(split(key, "."), 2)))
    ELSE ElementState(st, key)

\* What makes setupWatchers throw before setupWatcher subscribes: a missing
\* part, a selector querySelector rejects, no source (or one that is neither
\* store form: sourceReactive[2] is not a function), no target, no function.
watchError(st, g, rule) ==
    \/ watchSourceKey(rule) = <<>>
    \/ watchTargetKey(rule) = <<>>
    \/ watchExpression(rule) = ""
    \/ \E key \in {watchSourceKey(rule), watchTargetKey(rule)} :
          /\ ~Includes(key, <<"G", "L", "O", "B", "A", "L", ".">>)
          /\ InvalidSelector(key)
    \/ WatchReactive(st, g, watchSourceKey(rule)) \in {"none", "inherited"}
    \/ WatchReactive(st, g, watchTargetKey(rule)) = "none"
    \/ ~IsFunctionName(watchExpression(rule))

WatchCb(target, expression) ==
    [type |-> "watch", tgt |-> target, arg |-> expression, n |-> 0]

\* A setupWatchers that evaluates once at wiring time, as setupComputed does.
setupWatchersEvaluating(rule) ==
    /\ Quiescent
    /\ LET src == WatchReactive(stores, GLOBAL, watchSourceKey(rule))
           tgt == WatchReactive(stores, GLOBAL, watchTargetKey(rule))
           key == "watch-" \o Str(watchTargetKey(rule))
           start == <<Ev("setupWatchers", src, rule, 0, 0, NoCb)>>
       IN IF watchError(stores, GLOBAL, rule)
          THEN /\ stores' = stores
               /\ log' = Append(start, Ev("threw", src, rule, 0, 0, NoCb))
          ELSE LET r == subscribe(stores[src].subs, key,
                                  WatchCb(tgt, watchExpression(rule)))
                   first == FnApply(watchExpression(rule), <<stores[src].value>>)
               IN /\ stores' = IF r.threw THEN stores
                               ELSE [stores EXCEPT ![src].subs = r.subs,
                                                   ![tgt].value = first]
                  /\ log' = IF r.threw
                            THEN Append(start, Ev("threw", src, rule, 0, 0, NoCb))
                            ELSE start \o <<Ev("sub", src, key, 0, 0, NoCb),
                                            Ev("returned", src, rule, 0, 0, NoCb)>>
    /\ UNCHANGED <<stack, exc, env, held, GLOBAL, html, thrown>>

\* setupWatchers( element ), element carrying data-watch = rule.
setupWatchers(rule) ==
    /\ Quiescent
    /\ LET src == WatchReactive(stores, GLOBAL, watchSourceKey(rule))
           tgt == WatchReactive(stores, GLOBAL, watchTargetKey(rule))
           key == "watch-" \o Str(watchTargetKey(rule))
           start == <<Ev("setupWatchers", src, rule, 0, 0, NoCb)>>
       IN IF watchError(stores, GLOBAL, rule)
          THEN /\ stores' = stores
               /\ log' = Append(start, Ev("threw", src, rule, 0, 0, NoCb))
          ELSE LET r == subscribe(stores[src].subs, key,
                                  WatchCb(tgt, watchExpression(rule)))
               IN /\ stores' = [stores EXCEPT ![src].subs = r.subs]
                  /\ log' = IF r.threw
                            THEN Append(start, Ev("threw", src, rule, 0, 0, NoCb))
                            ELSE start \o <<Ev("sub", src, key, 0, 0, NoCb),
                                            Ev("returned", src, rule, 0, 0, NoCb)>>
    /\ UNCHANGED <<stack, exc, env, held, GLOBAL, html, thrown>>

SetupWatchers(rule) == setupWatchers(rule) /\ UNCHANGED aux

\* Whether executeWatcher can write its target: `.state =` on the object form,
\* `[1]( evaluated )` on the triple; the {get, set, subscribe} object of an
\* input element has neither.
WatchCanWrite(kind) == kind \in {"object", "triple"}
\* The form of the target the watcher holds; "inherited" for a property of
\* Object.prototype found under GLOBAL.
TargetKind(st, tgt) == IF tgt \in DOMAIN st THEN st[tgt].kind ELSE "inherited"

\* What executeWatcher writes: the function applied to a context whose $value
\* is the notified value.
WatchEvaluated(expression, newValue) == FnApply(expression, <<newValue>>)

\* An executeWatcher that writes its target only when the value differs from
\* the one the target holds.
InvokeWatchIfChanged ==
    /\ CanInvoke
    /\ CurrentEntry.cb.type = "watch"
    /\ ~FnRaises(CurrentEntry.cb.arg, <<Top.v>>)
    /\ WatchCanWrite(TargetKind(stores, CurrentEntry.cb.tgt))
    /\ LET evaluated == WatchEvaluated(CurrentEntry.cb.arg, Top.v) IN
       IF evaluated = stores[CurrentEntry.cb.tgt].value
       THEN /\ stack' = Advanced
            /\ log' = Append(log, CallEvent)
            /\ stores' = stores
       ELSE CallSet(CurrentEntry.cb.tgt, evaluated, "watch", Advanced,
                    log \o <<CallEvent,
                             Ev("fn", CurrentEntry.cb.tgt, CurrentEntry.cb.arg, evaluated,
                                Top.fid, NoCb)>>)
    /\ UNCHANGED <<aux, exc, env, held, GLOBAL, html, thrown>>

\* executeWatcher( _, newValue ) where the function returns and the target
\* is written.
InvokeWatch ==
    /\ CanInvoke
    /\ CurrentEntry.cb.type = "watch"
    /\ ~FnRaises(CurrentEntry.cb.arg, <<Top.v>>)
    /\ WatchCanWrite(TargetKind(stores, CurrentEntry.cb.tgt))
    /\ LET evaluated == WatchEvaluated(CurrentEntry.cb.arg, Top.v) IN
       CallSet(CurrentEntry.cb.tgt, evaluated, "watch", Advanced,
               log \o <<CallEvent,
                        Ev("fn", CurrentEntry.cb.tgt, CurrentEntry.cb.arg, evaluated,
                           Top.fid, NoCb)>>)
    /\ UNCHANGED <<aux, exc, env, held, GLOBAL, html, thrown>>

\* An executeWatcher without its try: what the function throws leaves the
\* callback.
InvokeWatchPropagates ==
    /\ CanInvoke
    /\ CurrentEntry.cb.type = "watch"
    /\ \/ FnRaises(CurrentEntry.cb.arg, <<Top.v>>)
       \/ ~WatchCanWrite(TargetKind(stores, CurrentEntry.cb.tgt))
    /\ stack' = Advanced
    /\ exc' = TRUE
    /\ log' = Append(log, CallEvent)
    /\ UNCHANGED <<aux, stores, env, held, GLOBAL, html, thrown>>

\* executeWatcher( _, newValue ) where the function throws, or the target
\* cannot be written: the catch of executeWatcher logs, nothing is written.
InvokeWatchCaught ==
    /\ CanInvoke
    /\ CurrentEntry.cb.type = "watch"
    /\ \/ FnRaises(CurrentEntry.cb.arg, <<Top.v>>)
       \/ ~WatchCanWrite(TargetKind(stores, CurrentEntry.cb.tgt))
    /\ stack' = Advanced
    /\ log' = log \o <<CallEvent,
                       Ev("watch-error", Top.store, CurrentEntry.key, Top.v, Top.fid, NoCb)>>
    /\ UNCHANGED <<aux, stores, exc, env, held, GLOBAL, html, thrown>>

\* The render targets of the page, after parse(): their data-bind attribute
\* and the placeholder {{...}} of their template.
dataBind(e) ==
    CASE e = "e1" -> "GLOBAL.y|y"
      [] e = "e2" -> "GLOBAL.x|y"
      [] e = "e3" -> "#a|a"
      [] e = "e4" -> "#a|name"
      [] e = "e5" -> "GLOBAL.y|y"
template(e) ==
    CASE e = "e1" -> "y"
      [] e = "e2" -> "y"
      [] e = "e3" -> "a"
      [] e = "e4" -> "name"
      [] e = "e5" -> "y"
\* const [selector, key] = bindRule.split( "|" )
parseBind(cs) ==
    [selector |-> Part(split(cs, "|"), 1), key |-> Str(Part(split(cs, "|"), 2))]
bindSelector(e) == parsed.bind[e].selector
bindKey(e) == parsed.bind[e].key

\* The attributes of the page as setupComputed, setupWatchers and bind parse
\* them.  Parsing reads nothing but the text of the attribute, so each is
\* parsed once, here, and the steps read the result.
ParsedAttributes ==
    [compute |-> [rule \in AllComputeRules \cup SharedSourceRules |->
                     parseRule(Chars(rule))],
     watch |-> [rule \in AllWatchRules \cup CycleRules |-> parseWatch(Chars(rule))],
     bind |-> [e \in Elems |-> parseBind(Chars(dataBind(e)))]]
\* selector.includes( "GLOBAL" )
IncludesGLOBAL(selector) == Includes(selector, <<"G", "L", "O", "B", "A", "L">>)
\* The source bind subscribes to: GLOBAL[key] when the selector includes
\* GLOBAL, else the state of the element the selector finds; "none" where
\* bind throws instead.
bindTarget(st, g, e) ==
    IF IncludesGLOBAL(bindSelector(e))
    THEN (IF HasOwn(g, bindKey(e)) THEN g[bindKey(e)] ELSE "none")
    ELSE IF InvalidSelector(bindSelector(e)) THEN "none"
    ELSE ElementState(st, bindSelector(e))
\* The one property of the object handed to render.
bindProp(e) == IF IncludesGLOBAL(bindSelector(e)) THEN bindKey(e) ELSE "name"

\* element.render( { [prop]: v } ) throws when the template has a placeholder
\* that is not a key of the props.
RenderThrows(e, prop) == template(e) # prop

BindCb(e, prop) == [type |-> "bind", tgt |-> e, arg |-> prop, n |-> 0]

\* bind( element ): subscribe the render callback, then render once.
bind(e) ==
    /\ Quiescent
    /\ LET key == bindKey(e)
           src == bindTarget(stores, GLOBAL, e)
           prop == bindProp(e)
           start == <<Ev("bind", e, dataBind(e), 0, 0, NoCb)>>
       IN IF src = "none"
          THEN /\ stores' = stores
               /\ html' = html
               /\ log' = Append(start, Ev("threw", e, "", 0, 0, NoCb))
          ELSE LET r == subscribe(stores[src].subs, "bind-" \o key, BindCb(e, prop))
               IN /\ stores' = [stores EXCEPT ![src].subs = r.subs]
                  /\ html' = IF r.threw \/ RenderThrows(e, prop)
                             THEN html
                             ELSE [html EXCEPT ![e] = stores[src].value]
                  /\ log' = IF r.threw
                            THEN Append(start, Ev("threw", e, "", 0, 0, NoCb))
                            ELSE IF RenderThrows(e, prop)
                            THEN start \o <<Ev("sub", src, "bind-" \o key, 0, 0, NoCb),
                                            Ev("threw", e, "", 0, 0, NoCb)>>
                            ELSE start \o <<Ev("sub", src, "bind-" \o key, 0, 0, NoCb),
                                            Ev("render", e, prop, stores[src].value, 0, NoCb),
                                            Ev("returned", e, "", 0, 0, NoCb)>>
    /\ UNCHANGED <<stack, exc, env, held, GLOBAL, thrown>>

Bind(e) == bind(e) /\ UNCHANGED aux

\* A render callback that leaves the page as it was.
RenderedStale(h, e, v) == h

\* element.innerHTML = template.replace( ... ): the placeholder replaced by v.
Rendered(h, e, v) == [h EXCEPT ![e] = v]

\* The render callback `( _, v ) => { element.render( { [key]: v } ); }`.
InvokeBind ==
    /\ CanInvoke
    /\ CurrentEntry.cb.type = "bind"
    /\ stack' = Advanced
    /\ LET e == CurrentEntry.cb.tgt
           prop == CurrentEntry.cb.arg
       IN IF RenderThrows(e, prop)
          THEN /\ exc' = TRUE
               /\ html' = html
               /\ log' = Append(log, CallEvent)
          ELSE /\ exc' = FALSE
               /\ html' = Rendered(html, e, Top.v)
               /\ log' = log \o <<CallEvent, Ev("render", e, prop, Top.v, Top.fid, NoCb)>>
    /\ UNCHANGED <<aux, stores, env, held, GLOBAL, thrown>>

(***************************************************************************)
(* The wiring: a page with GLOBAL.x (object form), GLOBAL.y (triple), an   *)
(* input element #a that may be reactive, a render target, and the rules   *)
(* above wired in any order.                                               *)
(***************************************************************************)
SyncCb == [type |-> "sync", tgt |-> "#a", arg |-> "", n |-> 0]

\* makeReactiveInput( element, options, initialValue ): element.state
makeReactiveInput(initialValue) ==
    [kind |-> "field", value |-> initialValue,
     subs |-> <<Entry("_internal_sync-dom-element", SyncCb)>>]

\* The page's own code may subscribe a throwing callback to GLOBAL.y.
WireCallbacks == {Raise}

WireEnvs == {"production", "development"}
\* The render target this page binds.
WireElems == {"e1"}

InitWire ==
    /\ \E a \in {NoStore, makeReactiveInput(0)} :
          stores = [s \in StoreIds |->
                      IF s = "s1" THEN reactiveObjectFactory(0)
                      ELSE IF s = "s2" THEN reactiveFactory(0)
                      ELSE IF s = "s3" THEN a
                      ELSE NoStore]
    /\ stack = <<>>
    /\ exc = FALSE
    /\ env \in WireEnvs
    /\ held = NoHandle
    /\ GLOBAL = [NoGlobal EXCEPT !["x"] = "s1", !["y"] = "s2"]
    /\ html = [e \in Elems |-> EmptyString]
    /\ thrown = FALSE
    /\ log = <<>>
    /\ input = <<>>
    /\ output = NoOutput
    /\ loading = NotLoading
    /\ page = NoPage
    /\ parsed = ParsedAttributes

NextWire ==
    \/ \E s \in {"s1", "s2", "s3"}, v \in Vals : Set(s, v)
    \/ \E cb \in WireCallbacks : Subscribe("s2", "a", cb, FALSE)
    \/ \E rule \in ComputeRules : SetupComputed(rule)
    \/ \E rule \in WatchRules : SetupWatchers(rule)
    \/ \E e \in WireElems : Bind(e)
    \/ InvokeRec
    \/ InvokeRaise
    \/ InvokeComputed
    \/ InvokeWatch
    \/ InvokeWatchCaught
    \/ InvokeBind
    \/ CatchError
    \/ SetReturn

SpecWire == InitWire /\ [][NextWire]_vars

\* A step of the call stack.  JavaScript runs a call to its end before
\* anything else: while a set is running, its next step is taken.
Running ==
    \/ InvokeRec
    \/ InvokeRaise
    \/ InvokeComputed
    \/ InvokeWatch
    \/ InvokeWatchCaught
    \/ InvokeBind
    \/ CatchError
    \/ SetReturn

LiveWire == SpecWire /\ WF_vars(Running)

(***************************************************************************)
(* The rules: the same page in production mode, whose elements may carry   *)
(* any data-compute and data-watch attribute, well formed or not.          *)
(***************************************************************************)
InitRules ==
    /\ \E a \in {NoStore, makeReactiveInput(0)} :
          stores = [s \in StoreIds |->
                      IF s = "s1" THEN reactiveObjectFactory(0)
                      ELSE IF s = "s2" THEN reactiveFactory(0)
                      ELSE IF s = "s3" THEN a
                      ELSE NoStore]
    /\ stack = <<>>
    /\ exc = FALSE
    /\ env = "production"
    /\ held = NoHandle
    /\ GLOBAL = [NoGlobal EXCEPT !["x"] = "s1", !["y"] = "s2"]
    /\ html = [e \in Elems |-> EmptyString]
    /\ thrown = FALSE
    /\ log = <<>>
    /\ input = <<>>
    /\ output = NoOutput
    /\ loading = NotLoading
    /\ page = NoPage
    /\ parsed = ParsedAttributes

NextRules ==
    \/ \E s \in {"s1", "s2", "s3"}, v \in Vals : Set(s, v)
    \/ \E rule \in AllComputeRules : SetupComputed(rule)
    \/ \E rule \in AllWatchRules : SetupWatchers(rule)
    \/ InvokeRec
    \/ InvokeComputed
    \/ InvokeWatch
    \/ InvokeWatchCaught
    \/ SetReturn

SpecRules == InitRules /\ [][NextRules]_vars

(***************************************************************************)
(* The bindings: the same page in production mode with four render         *)
(* targets, bound in any order while the sources are set.                  *)
(***************************************************************************)
NextBind ==
    \/ \E s \in {"s1", "s2", "s3"}, v \in Vals : Set(s, v)
    \/ \E e \in Elems : Bind(e)
    \/ InvokeRec
    \/ InvokeBind
    \/ CatchError
    \/ SetReturn

SpecBind == InitRules /\ [][NextBind]_vars

(***************************************************************************)
(* initialize(): the load handler walks a document whose elements carry    *)
(* compute, watch and bind rules, some of them wrong; afterwards the page  *)
(* sets its stores.                                                        *)
(***************************************************************************)
\* The lists `reactives.filter( ... )` can be: at most two elements, in
\* document order.
UpToTwo(S) ==
    {<<>>} \cup {<<a>> : a \in S} \cup {q \in S \X S : q[1] # q[2]}
PageComputeRules == {"t|picky(GLOBAL.x)", "t|nofn(GLOBAL.x)"}
PageWatchRules == {"GLOBAL.x|GLOBAL.y|picky", "GLOBAL.x|GLOBAL.y|nofn"}
PageBinds == {"e1", "e4"}
\* The documents: input tells whether #a carries data-reactive; a target
\* bound to #a is on the page only when it does.
Pages ==
    {pg \in [input : BOOLEAN, compute : UpToTwo(PageComputeRules),
             watch : UpToTwo(PageWatchRules), bind : UpToTwo(PageBinds)] :
        pg.input \/ \A i \in 1..Len(pg.bind) : pg.bind[i] # "e4"}

InitInit ==
    /\ stores = [s \in StoreIds |->
                   IF s = "s1" THEN reactiveObjectFactory(0)
                   ELSE IF s = "s2" THEN reactiveFactory(0)
                   ELSE NoStore]
    /\ stack = <<>>
    /\ exc = FALSE
    /\ env = "production"
    /\ held = NoHandle
    /\ GLOBAL = [NoGlobal EXCEPT !["x"] = "s1", !["y"] = "s2"]
    /\ html = [e \in Elems |-> EmptyString]
    /\ thrown = FALSE
    /\ log = <<>>
    /\ input = <<>>
    /\ output = NoOutput
    /\ loading = NotLoading
    /\ page \in Pages
    /\ parsed = ParsedAttributes

\* The three passes of the load handler, in order.
Passes == <<"compute", "watch", "bind">>
\* The element the handler comes to at or after position i of pass k, or
\* "done" when the passes are over.
RECURSIVE Seek(_, _, _)
Seek(pg, k, i) ==
    IF k > Len(Passes) THEN [phase |-> "done", idx |-> 0]
    ELSE IF i <= Len(pg[Passes[k]]) THEN [phase |-> Passes[k], idx |-> i]
    ELSE Seek(pg, k + 1, 1)
\* An exception leaves the handler: nothing after it runs.
Aborted == [phase |-> "aborted", idx |-> 0]
\* Where the handler is after the element at position i of pass k.
AfterElement(pg, k, i, threw) == IF threw THEN Aborted ELSE Seek(pg, k, i + 1)

\* The load event: setupReactiveInputs(), then parse on each target.
Load ==
    /\ loading.phase = "idle"
    /\ stores' = IF page.input
                 THEN [stores EXCEPT !["s3"] = makeReactiveInput(0)]
                 ELSE stores
    /\ loading' = Seek(page, 1, 1)
    /\ log' = <<Ev("initialize", "", "", 0, 0, NoCb)>>
    /\ UNCHANGED <<stack, exc, env, held, GLOBAL, html, thrown, input, output, page,
                   parsed>>

\* .map( ( el ) => setupComputed( el ) ), one element of it
LoadCompute ==
    /\ loading.phase = "compute"
    /\ setupComputed(page.compute[loading.idx])
    /\ loading' = AfterElement(page, 1, loading.idx, log'[Len(log')].ev = "threw")
    /\ UNCHANGED <<input, output, page, parsed>>

\* .map( ( el ) => setupWatchers( el ) ), one element of it
LoadWatch ==
    /\ loading.phase = "watch"
    /\ setupWatchers(page.watch[loading.idx])
    /\ loading' = AfterElement(page, 2, loading.idx, log'[Len(log')].ev = "threw")
    /\ UNCHANGED <<input, output, page, parsed>>

\* .map( ( el ) => bind( el ) ), one element of it
LoadBind ==
    /\ loading.phase = "bind"
    /\ bind(page.bind[loading.idx])
    /\ loading' = AfterElement(page, 3, loading.idx, log'[Len(log')].ev = "threw")
    /\ UNCHANGED <<input, output, page, parsed>>

\* The page sets a store once the handler is over.
PageSet(s, v) == loading.phase \in {"done", "aborted"} /\ Set(s, v)

NextInit ==
    \/ Load
    \/ LoadCompute
    \/ LoadWatch
    \/ LoadBind
    \/ \E s \in {"s1", "s2", "s3"}, v \in Vals : PageSet(s, v)
    \/ InvokeRec
    \/ InvokeComputed
    \/ InvokeWatch
    \/ InvokeWatchCaught
    \/ InvokeBind
    \/ SetReturn

SpecInit == InitInit /\ [][NextInit]_vars

(***************************************************************************)
(* parseParams on its own: a string is chosen and handed to it.            *)
(***************************************************************************)
\* The characters parseParams tells apart, a letter and a space.
ParseAlphabet == {"a", ",", Quote2, Quote1, "(", ")", " "}
StringsUpTo(n) == UNION {[1..k -> ParseAlphabet] : k \in 0..n}
\* a, "b,c", (d,e), f
ExampleParams ==
    <<"a", ",", " ", Quote2, "b", ",", "c", Quote2, ",", " ",
      "(", "d", ",", "e", ")", ",", " ", "f">>
ParseInputs == StringsUpTo(MaxLen) \cup {ExampleParams}

\* A page on which nothing exists yet.
BlankPage ==
    /\ stores = [s \in StoreIds |-> NoStore]
    /\ stack = <<>>
    /\ exc = FALSE
    /\ env = "production"
    /\ held = NoHandle
    /\ GLOBAL = NoGlobal
    /\ html = NoHtml
    /\ thrown = FALSE
    /\ log = <<>>
    /\ loading = NotLoading
    /\ page = NoPage
    /\ parsed = NoAttributes

InitParse ==
    /\ BlankPage
    /\ input \in ParseInputs
    /\ output = NoOutput

\* const paramStrings = parseParams( paramsString )
ParseParams ==
    /\ ~output.done
    /\ output' = [done |-> TRUE, value |-> parseParams(input)]
    /\ UNCHANGED <<stores, stack, exc, env, held, GLOBAL, html, thrown, log,
                   input, loading, page, parsed>>

NextParse == ParseParams

SpecParse == InitParse /\ [][NextParse]_vars

(***************************************************************************)
(* resolveParam on its own: a page with GLOBAL.x, GLOBAL.y and an input    *)
(* #a that may be reactive, and one argument string handed to it.          *)
(***************************************************************************)
\* The argument strings: element(...) and GLOBAL.key patterns that find a
\* store and that do not, literals, and strings that are none of these.
ResolveInputs ==
    { <<"e", "l", "e", "m", "e", "n", "t", "(", "#", "a", ")">>,
      <<"e", "l", "e", "m", "e", "n", "t", "(", " ", "#", "a", " ",
        ")">>,
      <<"e", "l", "e", "m", "e", "n", "t", "(", "#", "b", ")">>,
      <<"e", "l", "e", "m", "e", "n", "t", "(", "1", ")">>,
      <<"e", "l", "e", "m", "e", "n", "t", "(", "G", "L", "O", "B", "A",
        "L", ".", "x", ")">>,
      <<"G", "L", "O", "B", "A", "L", ".", "x">>,
      <<"G", "L", "O", "B", "A", "L", ".", "y">>,
      <<"G", "L", "O", "B", "A", "L", ".", "z">>,
      <<"G", "L", "O", "B", "A", "L", ".", "c", "o", "n", "s", "t", "r",
        "u", "c", "t", "o", "r">>,
      <<"G", "L", "O", "B", "A", "L", ".", "x", ".", "y">>,
      <<"1", "2", "3">>,
      <<" ", "1", "2", "3">>,
      <<Quote2, "1", "2", "3", Quote2>>,
      <<Quote2, "e", "l", "e", "m", "e", "n", "t", "(", "#", "a", ")",
        Quote2>>,
      <<"t", "r", "u", "e">>,
      <<"a", "b", "c">>,
      <<Quote1, "a", "b", "c", Quote1>>,
      <<"0", "1", "2">> }

InitResolve ==
    /\ \E x \in Vals, y \in Vals, a \in {NoStore} \cup {makeReactiveInput(v) : v \in Vals} :
          stores = [s \in StoreIds |->
                      IF s = "s1" THEN reactiveObjectFactory(x)
                      ELSE IF s = "s2" THEN reactiveFactory(y)
                      ELSE IF s = "s3" THEN a
                      ELSE NoStore]
    /\ stack = <<>>
    /\ exc = FALSE
    /\ env = "production"
    /\ held = NoHandle
    /\ GLOBAL = [NoGlobal EXCEPT !["x"] = "s1", !["y"] = "s2"]
    /\ html = [e \in Elems |-> EmptyString]
    /\ thrown = FALSE
    /\ log = <<>>
    /\ input \in ResolveInputs
    /\ output = NoOutput
    /\ loading = NotLoading
    /\ page = NoPage
    /\ parsed = NoAttributes

\* resolveParam( input )
ResolveParam ==
    /\ ~output.done
    /\ output' = [done |-> TRUE, value |-> resolveParam(stores, GLOBAL, input)]
    /\ UNCHANGED <<stores, stack, exc, env, held, GLOBAL, html, thrown, log,
                   input, loading, page, parsed>>

NextResolve == ResolveParam

SpecResolve == InitResolve /\ [][NextResolve]_vars

(***************************************************************************)
(* The two forms of a store side by side: a triple and an object view made *)
(* with the same initial value, and a caller that does to the one what it  *)
(* does to the other.                                                      *)
(***************************************************************************)
\* const get = () => store, the first component of the triple
get(st, s) == st[s].value

\* A state getter that does not read the store.
stateUnread(st, s) == 0

\* get state () { return get(); }
state(st, s) == get(st, s)

\* The callbacks the caller registers on both stores: the same function on
\* each, but for the clamp, which writes to the store it is subscribed on.
ViewCallbackTypes == {"rec", "raise", "clamp", "notfn"}
Mirror(type, s) ==
    CASE type = "rec" -> Rec(1)
      [] type = "raise" -> Raise
      [] type = "clamp" -> Clamp(s)
      [] type = "notfn" -> NotFn

\* The caller has written the triple and not yet the view.
PairOpen ==
    /\ Quiescent
    /\ log # <<>>
    /\ log[1].ev = "both-set"
    /\ Cardinality({i \in 1..Len(log) : log[i].ev \in {"returned", "threw"}}) = 1

InitView ==
    /\ \E v \in Vals :
          stores = [s \in StoreIds |->
                      IF s = "s1" THEN reactiveFactory(v)
                      ELSE IF s = "s2" THEN reactiveObjectFactory(v)
                      ELSE NoStore]
    /\ stack = <<>>
    /\ exc = FALSE
    /\ env \in Envs
    /\ held = NoHandle
    /\ GLOBAL = NoGlobal
    /\ html = NoHtml
    /\ thrown = FALSE
    /\ log = <<>>
    /\ input = <<>>
    /\ output = NoOutput
    /\ loading = NotLoading
    /\ page = NoPage
    /\ parsed = NoAttributes

\* subscribe(k, cb) on the triple's third component, then on the view.
BothSubscribe(k, type, keep) ==
    /\ Quiescent
    /\ ~PairOpen
    /\ LET r1 == subscribe(stores["s1"].subs, k, Mirror(type, "s1"))
           r2 == subscribe(stores["s2"].subs, k, Mirror(type, "s2"))
       IN /\ stores' = [stores EXCEPT !["s1"].subs = r1.subs, !["s2"].subs = r2.subs]
          /\ held' = IF keep /\ ~r1.threw
                     THEN [store |-> "s1", key |-> k, used |-> FALSE]
                     ELSE held
          /\ log' = <<Ev("both-subscribe", "s1", k, 0, 0, NoCb),
                      Ev(Outcome(r1.threw), "s1", k, 0, 0, NoCb),
                      Ev(Outcome(r2.threw), "s2", k, 0, 0, NoCb)>>
    /\ UNCHANGED <<aux, stack, exc, env, GLOBAL, html, thrown>>

\* The handle the triple's subscribe returned, called, then unsubscribe(k)
\* of the view for the same key.
BothUnsubscribe ==
    /\ Quiescent
    /\ ~PairOpen
    /\ held # NoHandle
    /\ LET r1 == unsubscribe(stores["s1"].subs, held.key)
           r2 == unsubscribe(stores["s2"].subs, held.key)
       IN /\ stores' = [stores EXCEPT !["s1"].subs = r1.subs, !["s2"].subs = r2.subs]
          /\ log' = <<Ev("both-unsubscribe", "s1", held.key, 0, 0, NoCb),
                      Ev(Outcome(r1.threw), "s1", held.key, 0, 0, NoCb),
                      Ev(Outcome(r2.threw), "s2", held.key, 0, 0, NoCb)>>
    /\ held' = [held EXCEPT !.used = TRUE]
    /\ UNCHANGED <<aux, stack, exc, env, GLOBAL, html, thrown>>

\* set(v), the second component of the triple, called by the caller, who
\* catches what it throws.
BothSet(v) ==
    /\ Quiescent
    /\ ~PairOpen
    /\ CallSet("s1", v, "top", <<>>, <<Ev("both-set", "s1", "", v, 0, NoCb)>>)
    /\ UNCHANGED <<aux, exc, env, held, GLOBAL, html, thrown>>

\* set state ( v ) { set( v ); }: then the caller assigns the same v to the
\* view's state.
ViewSet ==
    /\ PairOpen
    /\ CallSet("s2", log[1].v, "top", <<>>, log)
    /\ UNCHANGED <<aux, exc, env, held, GLOBAL, html, thrown>>

NextView ==
    \/ \E k \in Keys, type \in ViewCallbackTypes, keep \in BOOLEAN :
          BothSubscribe(k, type, keep)
    \/ BothUnsubscribe
    \/ \E v \in Vals : BothSet(v)
    \/ ViewSet
    \/ InvokeRec
    \/ InvokeRaise
    \/ InvokeSetter
    \/ CatchError
    \/ SetReturn

SpecView == InitView /\ [][NextView]_vars

(***************************************************************************)
(* Errors under way: GLOBAL.x watched into GLOBAL.y, with callbacks of the *)
(* page's own code, one forwarding GLOBAL.x to GLOBAL.y, one throwing.     *)
(***************************************************************************)
\* What the page's code subscribes on GLOBAL.y, and under which keys.
DevKeys == {"a", "b"}
DevCallbacks == {Raise, Rec(2)}

NextDev ==
    \/ \E s \in {"s1", "s2"}, v \in Vals : Set(s, v)
    \/ Subscribe("s1", "a", Fwd("s2"), FALSE)
    \/ \E k \in DevKeys, cb \in DevCallbacks : Subscribe("s2", k, cb, FALSE)
    \/ SetupWatchers("GLOBAL.x|GLOBAL.y|picky")
    \/ InvokeRec
    \/ InvokeRaise
    \/ InvokeSetter
    \/ InvokeWatch
    \/ InvokeWatchCaught
    \/ CatchError
    \/ SetReturn

SpecDev == InitWire /\ [][NextDev]_vars

(***************************************************************************)
(* A cycle: two watch rules that feed each other, an observer on GLOBAL.y. *)
(* Nothing ends the recursion a set then starts but the engine's call      *)
(* stack running out; the model follows it to depth MaxDepth.              *)
(***************************************************************************)
\* executeWatcher called while the call stack has room for the set it calls.
InvokeWatchWithinStack ==
    /\ Len(stack) < MaxDepth
    /\ InvokeWatch

NextCycle ==
    \/ \E s \in {"s1", "s2"}, v \in Vals : Set(s, v)
    \/ Subscribe("s2", "a", Rec(2), FALSE)
    \/ \E rule \in CycleRules : SetupWatchers(rule)
    \/ InvokeRec
    \/ InvokeWatchWithinStack
    \/ SetReturn

SpecCycle == InitWire /\ [][NextCycle]_vars

(***************************************************************************)
(* A notification round whose callbacks change the table: one store, with  *)
(* callbacks that unsubscribe a key of it or subscribe a new one.          *)
(***************************************************************************)
\* A callback that calls unsubscribe(k) of store t (or the handle for k).
Unsub(t, k) == [type |-> "unsub", tgt |-> t, arg |-> k, n |-> 0]
\* A callback that calls subscribe(k, observer) of store t.
Sub(t, k) == [type |-> "sub", tgt |-> t, arg |-> k, n |-> 0]

RoundKeys == {"a", "b"}
RoundCallbacks == {Rec(1), Unsub("s1", "b"), Sub("s1", "c")}

\* The entries of the running sets of store t without key k: what a loop
\* over the table itself would still have before it.
WithoutKey(stk, t, k) ==
    [f \in 1..Len(stk) |->
        IF stk[f].store = t
        THEN [stk[f] EXCEPT !.entries =
                SubSeq(stk[f].entries, 1, stk[f].idx - 1)
                    \o SelectSeq(SubSeq(stk[f].entries, stk[f].idx, Len(stk[f].entries)),
                                 LAMBDA e : e.key # k)]
        ELSE stk[f]]

\* A set that loops over the table itself, not over the array
\* Object.entries returned: a key deleted during the round is not invoked.
InvokeUnsubscriberLive ==
    /\ CanInvoke
    /\ CurrentEntry.cb.type = "unsub"
    /\ LET r == unsubscribe(stores[CurrentEntry.cb.tgt].subs, CurrentEntry.cb.arg) IN
        /\ stores' = [stores EXCEPT ![CurrentEntry.cb.tgt].subs = r.subs]
        /\ exc' = r.threw
    /\ stack' = WithoutKey(Advanced, CurrentEntry.cb.tgt, CurrentEntry.cb.arg)
    /\ log' = Append(log, CallEvent)
    /\ UNCHANGED <<aux, env, held, GLOBAL, html, thrown>>

\* callback(key, v) where the callback unsubscribes a key: it throws what
\* unsubscribe throws.
InvokeUnsubscriber ==
    /\ CanInvoke
    /\ CurrentEntry.cb.type = "unsub"
    /\ LET r == unsubscribe(stores[CurrentEntry.cb.tgt].subs, CurrentEntry.cb.arg) IN
        /\ stores' = [stores EXCEPT ![CurrentEntry.cb.tgt].subs = r.subs]
        /\ exc' = r.threw
    /\ stack' = Advanced
    /\ log' = Append(log, CallEvent)
    /\ UNCHANGED <<aux, env, held, GLOBAL, html, thrown>>

\* callback(key, v) where the callback subscribes an observer under a key:
\* it throws what subscribe throws.
InvokeSubscriber ==
    /\ CanInvoke
    /\ CurrentEntry.cb.type = "sub"
    /\ LET r == subscribe(stores[CurrentEntry.cb.tgt].subs, CurrentEntry.cb.arg, Rec(3)) IN
        /\ stores' = [stores EXCEPT ![CurrentEntry.cb.tgt].subs = r.subs]
        /\ exc' = r.threw
    /\ stack' = Advanced
    /\ log' = Append(log, CallEvent)
    /\ UNCHANGED <<aux, env, held, GLOBAL, html, thrown>>

InitRound ==
    /\ \E k \in {"triple", "object"} :
          stores = [s \in StoreIds |->
                      IF s = "s1" THEN [kind |-> k, value |-> 0, subs |-> <<>>]
                      ELSE NoStore]
    /\ stack = <<>>
    /\ exc = FALSE
    /\ env \in Envs
    /\ held = NoHandle
    /\ GLOBAL = NoGlobal
    /\ html = NoHtml
    /\ thrown = FALSE
    /\ log = <<>>
    /\ input = <<>>
    /\ output = NoOutput
    /\ loading = NotLoading
    /\ page = NoPage
    /\ parsed = NoAttributes

NextRound ==
    \/ \E v \in Vals : Set("s1", v)
    \/ \E k \in RoundKeys, cb \in RoundCallbacks : Subscribe("s1", k, cb, FALSE)
    \/ InvokeRec
    \/ InvokeUnsubscriber
    \/ InvokeSubscriber
    \/ CatchError
    \/ SetReturn

SpecRound == InitRound /\ [][NextRound]_vars

(***************************************************************************)
(* Two compute rules with a common source: the page in production mode,    *)
(* its elements wired in any order while the sources are set.              *)
(***************************************************************************)
NextShared ==
    \/ \E s \in {"s1", "s2"}, v \in Vals : Set(s, v)
    \/ \E rule \in SharedSourceRules : SetupComputed(rule)
    \/ Subscribe("s2", "a", Rec(2), FALSE)
    \/ InvokeRec
    \/ InvokeComputed
    \/ SetReturn

SpecShared == InitRules /\ [][NextShared]_vars

(***************************************************************************)
(* Reading the record of a call.                                           *)
(***************************************************************************)
LastEv == log[Len(log)]
\* The last top-level call was `op` and has ended with `outcome`.
Done(op, outcome) ==
    /\ Quiescent
    /\ log # <<>>
    /\ log[1].ev = op
    /\ LastEv.ev = outcome
\* The positions of the record where store s was entered by a set.
Enters(s) == {i \in 1..Len(log) : log[i].ev = "enter" /\ log[i].store = s}
Max(S) == CHOOSE m \in S : \A x \in S : x <= m
\* The callbacks frame f invoked, in order.
CallsOf(f) == SelectSeq(log, LAMBDA e : e.ev = "call" /\ e.fid = f)
\* A step that is the top-level call `op`.
IsCall(op) == Quiescent /\ log'[1].ev = op
Callee == log'[1].store
CalleeKey == log'[1].key
KeysOf(subs) == {subs[i].key : i \in 1..Len(subs)}
CbOf(subs, k) == subs[CHOOSE i \in 1..Len(subs) : subs[i].key = k].cb

(***************************************************************************)
(* The claims about the store.                                             *)
(***************************************************************************)
\* C1, as stated: once a top-level set(v) on a store has returned, the store
\* reads v, whatever callbacks were registered.
C1_GetAfterSetAnySubscribers ==
    Done("set", "returned") => stores[log[1].store].value = log[1].v

\* C1, amended: once a top-level set(v) on a store has returned, the store
\* reads the value of the most recent set call on it: v, unless a callback
\* run by that set called set on the same store again, and then the value
\* that (last) call wrote.
C1_GetAfterSet ==
    Done("set", "returned") =>
        LET s == log[1].store IN
        /\ stores[s].value = log[Max(Enters(s))].v
        /\ Cardinality(Enters(s)) = 1 => stores[s].value = log[1].v

\* A set(1) on a store with a subscriber has returned and the store reads 1.
C1_Witness ==
    /\ Done("set", "returned")
    /\ log[1].v = 1
    /\ Len(CallsOf(1)) > 0
    /\ stores[log[1].store].value = 1

\* C2: subscribe(k, cb) on a store where k is subscribed raises and leaves
\* the store as it was: the value, the keys and the callback under each key
\* (so the callback first registered under k is the one later sets invoke).
C2_DuplicateSubscribeRejected ==
    [][ (IsCall("subscribe") /\ hasOwnProperty(stores[Callee].subs, CalleeKey))
          => (log'[2].ev = "threw" /\ stores' = stores) ]_vars

\* A subscribe on a subscribed key has raised.
C2_Witness ==
    /\ Done("subscribe", "threw")
    /\ hasOwnProperty(stores[log[1].store].subs, log[1].key)

\* C3, amended: unsubscribe(k), called directly or through a handle (for the
\* first time or again), raises and changes nothing when k is not subscribed;
\* when k is subscribed it returns and removes exactly k's callback, the value
\* and every other key's callback and position staying as they were.  A
\* subscribe(k, cb2) on a key that is not subscribed succeeds and registers
\* cb2 last, and a set started later iterates exactly the callbacks then
\* registered.  A second call of a handle raises unless k has been subscribed
\* again since its first call; then it removes that subscription.
C3_Unsubscribe ==
    [][ /\ (IsCall("unsubscribe") \/ IsCall("handle") \/ IsCall("handle-again")) =>
            LET old == stores[Callee].subs
                new == stores'[Callee].subs
            IN IF CalleeKey \in KeysOf(old)
               THEN /\ log'[2].ev = "returned"
                    /\ KeysOf(new) = KeysOf(old) \ {CalleeKey}
                    /\ Len(new) = Len(old) - 1
                    /\ \A k \in KeysOf(new) : CbOf(new, k) = CbOf(old, k)
                    /\ \A i, j \in 1..Len(new) :
                          i < j => \E a, b \in 1..Len(old) :
                                     a < b /\ old[a] = new[i] /\ old[b] = new[j]
                    /\ stores'[Callee].value = stores[Callee].value
                    /\ \A t \in StoreIds \ {Callee} : stores'[t] = stores[t]
               ELSE log'[2].ev = "threw" /\ stores' = stores
        /\ (IsCall("subscribe") /\ CalleeKey \notin KeysOf(stores[Callee].subs)) =>
            /\ log'[2].ev = "returned"
            /\ Len(stores'[Callee].subs) = Len(stores[Callee].subs) + 1
            /\ stores'[Callee].subs[Len(stores'[Callee].subs)].key = CalleeKey
            /\ SubSeq(stores'[Callee].subs, 1, Len(stores[Callee].subs)) = stores[Callee].subs
        /\ IsCall("set") =>
            {stack'[1].entries[i] : i \in 1..Len(stack'[1].entries)}
                = {stores[Callee].subs[i] : i \in 1..Len(stores[Callee].subs)}
      ]_vars

\* C3, as stated in its last sentence: calling the same handle a second time
\* raises.
C3_SecondHandleCallRaises ==
    [][ IsCall("handle-again") => log'[2].ev = "threw" ]_vars

\* A handle has removed its key and another key is still subscribed.
C3_Witness ==
    /\ Done("handle", "returned")
    /\ stores[log[1].store].subs # <<>>
    /\ ~hasOwnProperty(stores[log[1].store].subs, log[1].key)

\* C4: set(v) invokes the registered callbacks in the order in which their
\* keys were subscribed, for any string keys.
C4_InvokedInSubscriptionOrder ==
    [][ IsCall("set") => stack'[1].entries = stores[Callee].subs ]_vars

\* Every frame that has returned, and in an environment that does not
\* rethrow every frame that was entered, invoked each of its n entries once.
AllInvoked ==
    \A i \in 1..Len(log) :
        log[i].ev = "enter" => Len(CallsOf(log[i].fid)) = log[i].n

OpenAt(j) ==
    {log[i].fid : i \in {a \in 1..j : log[a].ev = "enter"}}
        \ {log[i].fid : i \in {a \in 1..j : log[a].ev \in {"exit", "throw"}}}

\* C6: a set called from inside a callback assigns and runs all its
\* callbacks, and all they trigger, before the calling set invokes its next
\* callback: whenever a set invokes a callback, every set entered after it
\* has ended, and a set that returns has invoked all its entries; when the
\* outermost set has ended no set is left running.
C6_DepthFirst ==
    /\ \A j \in 1..Len(log) :
          /\ log[j].ev = "call" => log[j].fid = Max(OpenAt(j))
          /\ log[j].ev = "exit" =>
                /\ log[j].fid = Max(OpenAt(j - 1))
                /\ \E i \in 1..j :
                      /\ log[i].ev = "enter" /\ log[i].fid = log[j].fid
                      /\ Len(SelectSeq(SubSeq(log, 1, j),
                                LAMBDA e : e.ev = "call" /\ e.fid = log[j].fid)) = log[i].n
    /\ OpenAt(Len(log)) = {stack[i].fid : i \in 1..Len(stack)}
    /\ (log # <<>> /\ LastEv.ev \in {"returned", "threw"}) => Quiescent

\* A set called from a callback of the outermost set has run a callback of
\* its own and returned, and the outermost set has then invoked its next
\* callback.
C6_Witness ==
    \E i, j, k \in 1..Len(log) :
        /\ i < j /\ j < k
        /\ log[i].ev = "call" /\ log[i].fid = 2
        /\ log[j].ev = "exit" /\ log[j].fid = 2
        /\ log[k].ev = "call" /\ log[k].fid = 1

(***************************************************************************)
(* The claims about the wiring.                                            *)
(***************************************************************************)
\* The positions of the record holding an event of kind ev.
Positions(ev) == {i \in 1..Len(log) : log[i].ev = ev}
\* No set of the last top-level call rethrew a callback's error.
NothingRethrown == Positions("throw") = {}
WatchXY == "GLOBAL.x|GLOBAL.y|picky"

\* A top-level set(v) on GLOBAL.x has returned, the watch rule
\* GLOBAL.x -> GLOBAL.y via f being wired, an element being bound to
\* GLOBAL.y, and f not raising on v.
CascadeDone ==
    /\ Done("set", "returned")
    /\ log[1].store = GLOBAL["x"]
    /\ hasOwnProperty(stores[GLOBAL["x"]].subs, "watch-" \o Str(watchTargetKey(WatchXY)))
    /\ hasOwnProperty(stores[GLOBAL["y"]].subs, "bind-" \o bindKey("e1"))
    /\ ~FnRaises(watchExpression(WatchXY), <<log[1].v>>)
\* What f gives for the value of the top-level set.
CascadeValue == FnApply(watchExpression(WatchXY), <<log[1].v>>)
\* During the call GLOBAL.y was set to fv and the element rendered with fv
\* after that, before the return.
SetThenRendered(fv) ==
    \E i, j \in 1..Len(log) :
        /\ i < j /\ j < Len(log)
        /\ log[i].ev = "enter" /\ log[i].store = GLOBAL["y"] /\ log[i].v = fv
        /\ log[j].ev = "render" /\ log[j].store = "e1" /\ log[j].v = fv

Range(q) == {q[i] : i \in 1..Len(q)}

\* C8: when setupComputed has returned for a rule T|f(args), GLOBAL[T] is the
\* new computed store and holds f of the arguments as they resolve then (the
\* wiring changes none of them); f was invoked once, after the subscriptions
\* to the sources, and no source notified a subscriber during the wiring.
C8_InitialEvaluation ==
    Done("setupComputed", "returned") =>
        LET c == log[1].store
            rule == log[1].key
            f == functionName(rule)
            args == ResolvedParams(stores, GLOBAL, rule)
        IN /\ GLOBAL[targetKey(rule)] = c
           /\ stores[c].kind = "object"
           /\ ~FnRaises(f, args) => stores[c].value = FnApply(f, args)
           /\ Cardinality(Positions("fn")) = 1
           /\ \A i \in Positions("sub"), j \in Positions("fn") : i < j
           /\ {log[i].store : i \in Positions("sub")}
                 = Range(DependencyStores(stores, GLOBAL, rule))
           /\ Positions("call") = {}
           /\ \A i \in Positions("enter"), j \in Positions("fn") :
                 log[i].store = c /\ j < i

\* The rule of two arguments was wired while they added up to 1: the target
\* holds 1 and both sources were subscribed to.
C8_Witness ==
    /\ Done("setupComputed", "returned")
    /\ log[1].key = "t|sum(GLOBAL.y, element(#a))"
    /\ Cardinality(Positions("sub")) = 2
    /\ stores[GLOBAL["t"]].value = 1

\* Store c is the computed store that wiring rule r made.
WiredBy(c, r) ==
    \E s \in StoreIds : \E i \in 1..Len(stores[s].subs) :
        stores[s].subs[i].cb = ComputedCb(c, r)

\* Every source the rule names exists: the GLOBAL keys and reactive elements.
SourcesExist(r) ==
    /\ \A i \in 1..Len(DependencyGlobals(r)) : GLOBAL[DependencyGlobals(r)[i]] # "none"
    /\ \A i \in 1..Len(DependencyElements(r)) :
          ElementState(stores, DependencyElements(r)[i]) # "none"

\* The stores rule r reads its arguments from.
SourceStores(r) == Range(DependencyStores(stores, GLOBAL, r))

\* The store rule r registered as GLOBAL[T] holds f of the current values of
\* all the arguments of r, where all its sources exist and f does not raise.
Fresh(r) ==
    LET c == GLOBAL[targetKey(r)]
        f == functionName(r)
        args == ResolvedParams(stores, GLOBAL, r)
    IN (c # "none" /\ WiredBy(c, r) /\ SourcesExist(r) /\ ~FnRaises(f, args))
          => stores[c].value = FnApply(f, args)

C10_FailedEvaluationKeepsValue ==
    [][ ( /\ CanInvoke
          /\ CurrentEntry.cb.type = "computed"
          /\ FnRaises(functionName(CurrentEntry.cb.arg),
                      ResolvedParams(stores, GLOBAL, CurrentEntry.cb.arg)) )
        => stores'[CurrentEntry.cb.tgt].value = stores[CurrentEntry.cb.tgt].value ]_vars

\* C11: when the watch function raises on the notified value, the step of
\* the watcher callback writes no store, raises nothing into the set that
\* invoked it and lets that set go on to its next entry; the record shows the
\* error logged by the watcher and not by the set, and once the call is over
\* every subscriber of the source was invoked.
C11_WatchErrorContained ==
    /\ \A i \in 1..Len(log) :
          (log[i].ev = "call" /\ log[i].cb.type = "watch"
              /\ FnRaises(log[i].cb.arg, <<log[i].v>>) /\ i < Len(log))
          => /\ log[i + 1].ev = "watch-error"
             /\ \A j \in Positions("enter") :
                   j > i => log[j].store # log[i].cb.tgt
    /\ \A i \in Positions("watch-error") :
          /\ ~exc \/ Top.fid # log[i].fid
          /\ \A j \in Positions("error") :
                ~(log[j].fid = log[i].fid /\ log[j].key = log[i].key)
          /\ Quiescent =>
                \E e \in Positions("enter") :
                    /\ log[e].fid = log[i].fid
                    /\ Len(CallsOf(log[i].fid)) = log[e].n

\* The watch function raised on 1, the target kept 0 and a subscriber of the
\* source registered after the watcher was invoked.
C11_Witness ==
    /\ Done("set", "returned")
    /\ \E i \in Positions("watch-error"), j \in Positions("call") :
          i < j /\ log[j].fid = log[i].fid
    /\ stores["s2"].value = 0

\* The values of the stores, without their subscriptions.
Values(st) == [s \in StoreIds |-> st[s].value]

\* C12, as stated: when setupWatchers has returned for a rule S|T|f, T holds
\* f of S's current value (where f does not raise on it).
C12_WatchFirstEvaluation ==
    Done("setupWatchers", "returned") =>
        LET rule == log[1].key
            src == WatchReactive(stores, GLOBAL, watchSourceKey(rule))
            tgt == WatchReactive(stores, GLOBAL, watchTargetKey(rule))
        IN ~FnRaises(watchExpression(rule), <<stores[src].value>>)
              => stores[tgt].value
                    = FnApply(watchExpression(rule), <<stores[src].value>>)

\* C12, amended: setupWatchers evaluates nothing at wiring time.  The call
\* leaves every store's value, the registry and the page as they were,
\* invokes no function and notifies no subscriber; when it returns it has
\* added exactly the watcher callback, last, to the source's subscriptions.
C12_WatchWiringOnlySubscribes ==
    [][ IsCall("setupWatchers") =>
          LET rule == CalleeKey
              src == WatchReactive(stores, GLOBAL, watchSourceKey(rule))
          IN /\ Values(stores') = Values(stores)
             /\ GLOBAL' = GLOBAL /\ html' = html /\ stack' = <<>>
             /\ \A i \in 1..Len(log') : log'[i].ev \notin {"fn", "enter", "call"}
             /\ log'[Len(log')].ev = "returned" =>
                   /\ stores'[src].subs
                         = Append(stores[src].subs,
                                  Entry("watch-" \o Str(watchTargetKey(rule)),
                                        WatchCb(WatchReactive(stores, GLOBAL,
                                                              watchTargetKey(rule)),
                                                watchExpression(rule))))
                   /\ \A s \in StoreIds \ {src} : stores'[s] = stores[s]
             /\ log'[Len(log')].ev = "threw" => stores' = stores ]_vars

\* setupWatchers has returned and the target does not hold f of the source.
C12_Witness ==
    /\ Done("setupWatchers", "returned")
    /\ stores["s1"].value = 0
    /\ stores["s2"].value = 0
    /\ hasOwnProperty(stores["s1"].subs, "watch-GLOBAL.y")

\* The computed stores that triggers subscribed in st write for target T.
Wirings(st, T) ==
    UNION { {st[s].subs[i].cb.tgt :
                i \in {j \in 1..Len(st[s].subs) :
                         /\ st[s].subs[j].cb.type = "computed"
                         /\ targetKey(st[s].subs[j].cb.arg) = T}} :
            s \in StoreIds }

\* C20: setupComputed for a target key that is already registered raises and
\* changes nothing, whatever the arguments of the rule, and at no time do the
\* triggers of two wirings of one target stay subscribed.
C20_RewiringRejected ==
    [][ IsCall("setupComputed") =>
          /\ GLOBAL[targetKey(CalleeKey)] # "none" =>
                /\ log'[Len(log')].ev = "threw"
                /\ stores' = stores
                /\ GLOBAL' = GLOBAL
          /\ Cardinality(Wirings(stores', targetKey(CalleeKey))) <= 1 ]_vars

\* The rules with a missing part, with a function call that is not an
\* identifier followed by a parenthesized body, or naming no function.
StructurallyWrong ==
    {"t|", "|picky(GLOBAL.x)", "t|picky", "t|(GLOBAL.x)", "t|nofn(GLOBAL.x)",
     "GLOBAL.x|GLOBAL.y", "GLOBAL.x|GLOBAL.y|nofn"}

\* C17: setupComputed or setupWatchers on a rule with a missing part, a
\* function call that is not name(...), or a name that is no function,
\* throws, with no subscription added to any store and the registry as it
\* was.
C17_StructuralErrorBeforeWiring ==
    [][ (IsCall("setupComputed") \/ IsCall("setupWatchers"))
        /\ CalleeKey \in StructurallyWrong =>
           /\ log'[Len(log')].ev = "threw"
           /\ \A i \in 1..Len(log') : log'[i].ev # "sub"
           /\ stores' = stores
           /\ GLOBAL' = GLOBAL ]_vars

\* setupComputed threw on a rule naming no function, on a page where a
\* watcher and a computed value are wired.
C17_Witness ==
    /\ Done("setupComputed", "threw")
    /\ log[1].key = "t|nofn(GLOBAL.x)"
    /\ KeysOf(stores["s1"].subs) = {"watch-GLOBAL.y"}
    /\ GLOBAL["t"] # "none"

\* C19, as stated: every function a compute or watch rule has invoked is
\* registered in COMPUTE_FUNCTIONS, and setup returns normally only for
\* rules that name such a function.
C19_OnlyRegisteredFunctions ==
    /\ \A i \in Positions("fn") : log[i].key \in COMPUTE_FUNCTIONS
    /\ Done("setupComputed", "returned") =>
          functionName(log[1].key) \in COMPUTE_FUNCTIONS
    /\ Done("setupWatchers", "returned") =>
          watchExpression(log[1].key) \in COMPUTE_FUNCTIONS

\* The source a bind rule <source>|<t> names: the registry entry k of
\* GLOBAL.k, or the state of the element the selector finds.
NamedSource(st, g, e) == WatchReactive(st, g, bindSelector(e))
\* The render targets whose rule names its source and its placeholder alike,
\* or names an element.
PlainlyBound == {"e1", "e3", "e4"}

\* C13, as stated: bind on a rule <source>|<t> whose source is reactive
\* renders the target at once with {{t}} replaced by the source's value, and
\* once a later set(v) on the source has returned, the target shows v.
C13_BindRenders ==
    /\ [][ IsCall("bind") /\ Callee \in PlainlyBound
            /\ NamedSource(stores, GLOBAL, Callee) # "none"
            /\ ~hasOwnProperty(stores[NamedSource(stores, GLOBAL, Callee)].subs,
                               "bind-" \o bindKey(Callee)) =>
               html'[Callee] = stores[NamedSource(stores, GLOBAL, Callee)].value ]_vars
    /\ [](\A e \in PlainlyBound :
            /\ Done("set", "returned")
            /\ NamedSource(stores, GLOBAL, e) = log[1].store
            /\ \E i \in 1..Len(stores[log[1].store].subs) :
                  stores[log[1].store].subs[i].cb = BindCb(e, bindProp(e))
            => html[e] = log[1].v)

\* C14, as stated: bind on a rule GLOBAL.k|t subscribes the render callback
\* on the registry entry k, whatever t is, and throws only when the registry
\* has no entry k.
C14_BindSubscribesNamedGlobal ==
    [][ IsCall("bind") /\ globalMatch(bindSelector(Callee)) # null =>
           LET k == Str(globalMatch(bindSelector(Callee))) IN
           /\ log'[Len(log')].ev = "threw" => ~HasOwn(GLOBAL, k)
           /\ HasOwn(GLOBAL, k) =>
                 \E i \in 1..Len(stores'[GLOBAL[k]].subs) :
                     stores'[GLOBAL[k]].subs[i].cb.type = "bind"
                     /\ stores'[GLOBAL[k]].subs[i].cb.tgt = Callee ]_vars

\* C18, as stated: when the load handler of initialize is over, every
\* element of the page whose rule is not structurally wrong is wired: the
\* trigger of its compute rule is subscribed, its watcher is subscribed to
\* the source, its render callback is subscribed to the source.
C18_ErrorAbortsOneElement ==
    loading.phase \in {"done", "aborted"} =>
       /\ \A i \in 1..Len(page.compute) :
             page.compute[i] \notin StructurallyWrong =>
                Wirings(stores, targetKey(page.compute[i])) # {}
       /\ \A i \in 1..Len(page.watch) :
             page.watch[i] \notin StructurallyWrong =>
                hasOwnProperty(
                    stores[WatchReactive(stores, GLOBAL,
                                         watchSourceKey(page.watch[i]))].subs,
                    "watch-" \o Str(watchTargetKey(page.watch[i])))
       /\ \A i \in 1..Len(page.bind) :
             \E j \in 1..Len(stores[NamedSource(stores, GLOBAL, page.bind[i])].subs) :
                 stores[NamedSource(stores, GLOBAL, page.bind[i])].subs[j].cb
                     = BindCb(page.bind[i], bindProp(page.bind[i]))

(***************************************************************************)
(* The claims about the parser and the resolver.                           *)
(***************************************************************************)
\* The quote character that is open after the first i characters of cs, ""
\* when none is: a quote opens a segment that only the same character closes.
RECURSIVE OpenQuote(_, _)
OpenQuote(cs, i) ==
    IF i = 0 THEN ""
    ELSE LET before == OpenQuote(cs, i - 1) IN
         IF before = ""
         THEN (IF cs[i] \in {Quote2, Quote1} THEN cs[i] ELSE "")
         ELSE (IF cs[i] = before THEN "" ELSE before)
\* The parenthesis depth after the first i characters: the parentheses
\* outside quoted segments, opening ones minus closing ones.
DepthAt(cs, i) ==
    Cardinality({j \in 1..i : cs[j] = "(" /\ OpenQuote(cs, j - 1) = ""})
        - Cardinality({j \in 1..i : cs[j] = ")" /\ OpenQuote(cs, j - 1) = ""})
\* The commas outside every quoted segment and at depth zero.
SplittingCommas(cs) ==
    {i \in 1..Len(cs) :
        cs[i] = "," /\ OpenQuote(cs, i - 1) = "" /\ DepthAt(cs, i - 1) = 0}
Min(S) == CHOOSE m \in S : \A x \in S : m <= x
\* The pieces of cs after position `from`, cut at the splitting commas and
\* trimmed; the last piece is left out when it is blank.
RECURSIVE Pieces(_, _)
Pieces(cs, from) ==
    LET later == {q \in SplittingCommas(cs) : q > from} IN
    IF later = {}
    THEN (IF trim(SubSeq(cs, from + 1, Len(cs))) # <<>>
          THEN <<trim(SubSeq(cs, from + 1, Len(cs)))>>
          ELSE <<>>)
    ELSE <<trim(SubSeq(cs, from + 1, Min(later) - 1))>> \o Pieces(cs, Min(later))

\* C15: parseParams splits its string at exactly the commas that are outside
\* every quoted segment and at parenthesis depth zero, and returns the pieces
\* in order, trimmed (a blank last piece is not returned); the string
\* `a, "b,c", (d,e), f` gives 'a', '"b,c"', '(d,e)', 'f'.
C15_SplitsAtTopLevelCommas ==
    output.done =>
       /\ output.value = Pieces(input, 0)
       /\ input = ExampleParams =>
             output.value = << <<"a">>, <<Quote2, "b", ",", "c", Quote2>>,
                               <<"(", "d", ",", "e", ")">>, <<"f">> >>

\* The example string was split in four.
C15_Witness ==
    /\ output.done
    /\ input = ExampleParams
    /\ Len(output.value) = 4
    /\ output.value[2] = <<Quote2, "b", ",", "c", Quote2>>


\* C16, as stated: resolveParam takes the first case that matches.  An
\* element(selector) argument gives the value of the element's store, or
\* undefined when there is no such reactive element; a GLOBAL.key argument
\* gives the value of the registered store, or undefined when the key is not
\* registered; neither raises nor goes on to a later case.  Any other
\* argument gives its JSON value when it is a JSON literal and the trimmed
\* string otherwise: 123 the number 123, "123" the string 123.
C16_ResolvesByPrecedence ==
    output.done =>
       LET p == trim(input)
           el == IF elementMatch(p) = null THEN "none"
                 ELSE ElementState(stores, elementMatch(p))
           k == IF globalMatch(p) = null THEN "" ELSE Str(globalMatch(p))
       IN /\ elementMatch(p) # null =>
                output.value = IF el # "none"
                               THEN Resolved("state", stores[el].value, "")
                               ELSE Resolved("undefined", 0, "")
          /\ elementMatch(p) = null /\ globalMatch(p) # null =>
                output.value = IF HasOwn(GLOBAL, k)
                               THEN Resolved("state", stores[GLOBAL[k]].value, "")
                               ELSE Resolved("undefined", 0, "")
          /\ elementMatch(p) = null /\ globalMatch(p) = null =>
                output.value = IF JSONparse(p).kind # "throws" THEN JSONparse(p)
                               ELSE Resolved("raw", 0, Str(p))
          /\ p = <<"1", "2", "3">> => output.value = Resolved("number", 123, "")
          /\ p = <<Quote2, "1", "2", "3", Quote2>> =>
                output.value = Resolved("string", 0, "123")

(***************************************************************************)
(* The claims about the two forms of a store.                              *)
(***************************************************************************)
\* Where the record of a write to both stores turns from the triple's set to
\* the view's: the position of the first outcome.
FirstOutcome ==
    CHOOSE i \in 1..Len(log) :
        /\ log[i].ev \in {"returned", "threw"}
        /\ \A j \in 1..(i - 1) : log[j].ev \notin {"returned", "threw"}
\* The view's store where the triple's is named.
Mirrored(s) == IF s = "s1" THEN "s2" ELSE s
\* Line b of the record says of the view what line a says of the triple, the
\* sets of the view being numbered after the d sets of the triple.
SameEvent(a, b, d) ==
    /\ b.ev = a.ev /\ b.key = a.key /\ b.v = a.v /\ b.n = a.n
    /\ b.store = Mirrored(a.store)
    /\ b.fid = (IF a.fid = 0 THEN 0 ELSE a.fid + d)
    /\ b.cb.type = a.cb.type /\ b.cb.n = a.cb.n
    /\ b.cb.tgt = Mirrored(a.cb.tgt)
\* Both stores have been written and both calls have ended.
BothSetDone ==
    /\ Quiescent
    /\ log # <<>>
    /\ log[1].ev = "both-set"
    /\ ~PairOpen

Enclosing(j) == Max(OpenAt(j))
\* The callback type that called set number f, as the record has it: the
\* last callback invoked before f was entered.
CallerOf(f) ==
    LET e == CHOOSE i \in 1..Len(log) : log[i].ev = "enter" /\ log[i].fid = f
        c == Max({i \in 1..e : log[i].ev = "call"})
    IN log[c].cb.type
\* In development every error a set logs is rethrown by that set at once, and
\* the set invokes nothing after it.
RethrownAtOnce ==
    \A i \in Positions("error") :
        /\ i < Len(log)
        /\ log[i + 1].ev = "throw" /\ log[i + 1].fid = log[i].fid
        /\ \A j \in (i + 1)..Len(log) :
              ~(log[j].ev = "call" /\ log[j].fid = log[i].fid)

\* C22, as stated: in development a callback's error is rethrown by its own
\* set and by every set around it, so that the outermost set raises too.
C22_PropagatesThroughEverySet ==
    (env = "development" /\ Quiescent /\ log # <<>> /\ log[1].ev = "set"
        /\ Positions("error") # {}) => LastEv.ev = "threw"

\* C22, amended: in development a callback that raises during set(v) has its
\* error logged and rethrown out of that set; the store holds v by then, and
\* the callbacks after the failing one are not invoked for this set.  The
\* error then leaves the callback that had called this set and is logged and
\* rethrown in the same way by the set around it, up to the outermost, whose
\* caller gets it; but a set called by executeWatcher ends the error's way:
\* executeWatcher catches it and the set around it goes on.
C22_RethrownUntilCaught ==
    env = "development" =>
        /\ RethrownAtOnce
        /\ exc => stores[Top.store].value = log[Max(Enters(Top.store))].v
        /\ \A j \in Positions("throw") :
              IF log[j].fid = 1
              THEN j < Len(log) /\ log[j + 1].ev = "threw"
              ELSE IF CallerOf(log[j].fid) = "watch"
              THEN IF j = Len(log) THEN ~exc ELSE log[j + 1].ev # "error"
              ELSE IF j = Len(log) THEN exc /\ Top.fid = Enclosing(j)
              ELSE log[j + 1].ev = "error" /\ log[j + 1].fid = Enclosing(j)
        /\ (Quiescent /\ log # <<>> /\ log[1].ev = "set") =>
              (LastEv.ev = "threw" <=> \E i \in Positions("error") : log[i].fid = 1)

\* In development a set of GLOBAL.x has raised: the watcher's set of
\* GLOBAL.y raised and was caught, the forwarding callback's set of GLOBAL.y
\* raised, and GLOBAL.x's set rethrew that; the observer subscribed after the
\* throwing callback was never invoked.
C22_Witness ==
    /\ env = "development"
    /\ Done("set", "threw")
    /\ log[1].store = "s1"
    /\ Cardinality(Positions("throw")) = 3
    /\ \E i \in 1..Len(stores["s2"].subs) : stores["s2"].subs[i].cb.type = "rec"
    /\ \A i \in Positions("call") : log[i].cb.type # "rec"

(***************************************************************************)
(* The claims about the end of a notification chain.                       *)
(***************************************************************************)
\* C23: on the page whose rules form no cycle (GLOBAL.x watched into
\* GLOBAL.y, t computed from GLOBAL.y and #a or from GLOBAL.x, an element
\* bound to GLOBAL.y), every set that is called returns or raises to its
\* caller: a running call stack always empties.  Until then no store is
\* being set by two running sets at once, so the stack is never deeper than
\* there are stores, and no set invokes more callbacks than the entries it
\* took when it began.
C23_AcyclicSetReturns ==
    /\ (~Quiescent) ~> Quiescent
    /\ [](\A i, j \in 1..Len(stack) : i < j => stack[i].store # stack[j].store)
    /\ [](\A i \in Positions("enter") : Len(CallsOf(log[i].fid)) <= log[i].n)

\* A set of GLOBAL.x has returned after the watcher wrote GLOBAL.y and the
\* computed value of t was written from there: three sets deep.
C23_Witness ==
    /\ Done("set", "returned")
    /\ log[1].store = "s1"
    /\ \E i \in Positions("enter") : log[i].fid = 3
    /\ \E i \in Positions("call") : log[i].cb.type = "computed"

\* Both rules of the cycle are wired.
CycleWired ==
    /\ hasOwnProperty(stores["s1"].subs, "watch-GLOBAL.y")
    /\ hasOwnProperty(stores["s2"].subs, "watch-GLOBAL.x")
\* The running set on top of the stack has yet to invoke its watcher.
WatcherAhead ==
    \E i \in Top.idx..Len(Top.entries) : Top.entries[i].cb.type = "watch"

\* C24: a set takes every subscribed callback, whatever the value it writes
\* and the value the store held; a watcher that is invoked sets its target,
\* one set deeper, also when the target holds that value already; and
\* with GLOBAL.x watched into GLOBAL.y and GLOBAL.y into GLOBAL.x, a set of
\* either never returns: no set it started has ended, and the innermost
\* always has its watcher still to invoke, so the depth passes every bound
\* the call stack allows.
C24_CycleNeverEnds ==
    /\ [][ IsCall("set") => Len(stack'[1].entries) = Len(stores[Callee].subs) ]_vars
    /\ [][ (CanInvoke /\ CurrentEntry.cb.type = "watch" /\ Len(stack) < MaxDepth)
             => (/\ Len(stack') = Len(stack) + 1
                 /\ stack'[Len(stack')].store = CurrentEntry.cb.tgt
                 /\ stack'[Len(stack')].v = Top.v) ]_vars
    /\ []((CycleWired /\ log # <<>> /\ log[1].ev = "set") =>
             (/\ ~Quiescent
              /\ Positions("exit") = {}
              /\ WatcherAhead))

\* With the cycle wired, a set of 1 on GLOBAL.x, which held 1, is MaxDepth
\* sets deep, every one of them writing 1 where 1 was.
C24_Witness ==
    /\ CycleWired
    /\ Len(stack) = MaxDepth
    /\ stack[1].store = "s1"
    /\ \A i \in 1..Len(stack) : stack[i].v = 1
    /\ \E i \in Positions("call") : log[i].cb.type = "rec"
    /\ Cardinality(Enters("s1")) >= 2

(***************************************************************************)
(* More claims about the parser.                                           *)
(***************************************************************************)
\* x occurs in cs as a run of consecutive characters.
IsSubstring(x, cs) ==
    \E a \in 1..(Len(cs) + 1) :
        a + Len(x) - 1 <= Len(cs) /\ SubSeq(cs, a, a + Len(x) - 1) = x
\* What follows the last comma parseParams splits at (the whole string when
\* it splits nowhere).
AfterLastComma(cs) == SubSeq(cs, Max(SplittingCommas(cs) \cup {0}) + 1, Len(cs))
\* parseParams has returned arguments that are trimmed and taken from the
\* input as they stand.
TrimmedSubstrings ==
    \A i \in 1..Len(output.value) :
        /\ trim(output.value[i]) = output.value[i]
        /\ IsSubstring(output.value[i], input)

\* C25: parseParams returns no argument for an empty or blank string; blank
\* text after the last comma it splits at gives no argument, other text
\* after it is the last argument, trimmed; and every argument returned is a
\* trimmed substring of the input and is not empty.
C25_ArgumentsNonEmptyTrimmed ==
    output.done =>
       /\ trim(input) = <<>> => output.value = <<>>
       /\ (IF trim(AfterLastComma(input)) = <<>>
           THEN Len(output.value) = Cardinality(SplittingCommas(input))
           ELSE /\ Len(output.value) = Cardinality(SplittingCommas(input)) + 1
                /\ output.value[Len(output.value)] = trim(AfterLastComma(input)))
       /\ TrimmedSubstrings
       /\ \A i \in 1..Len(output.value) : output.value[i] # <<>>

\* The parenthesis groups open after the first i characters: a '(' outside
\* quotes opens one, a ')' outside quotes closes the innermost open one, and
\* closes nothing when none is open.
RECURSIVE OpenGroups(_, _)
OpenGroups(cs, i) ==
    IF i = 0 THEN 0
    ELSE LET before == OpenGroups(cs, i - 1) IN
         IF OpenQuote(cs, i - 1) # "" THEN before
         ELSE IF cs[i] = "(" THEN before + 1
         ELSE IF cs[i] = ")" /\ before > 0 THEN before - 1
         ELSE before
\* The commas outside every quoted segment and every open group.
TopLevelCommas(cs) ==
    {i \in 1..Len(cs) :
        cs[i] = "," /\ OpenQuote(cs, i - 1) = "" /\ OpenGroups(cs, i - 1) = 0}
\* The pieces of cs after position `from`, cut at the given commas and
\* trimmed; the last piece is left out when it is blank.
RECURSIVE CutAt(_, _, _)
CutAt(cs, from, commas) ==
    LET later == {q \in commas : q > from} IN
    IF later = {}
    THEN (IF trim(SubSeq(cs, from + 1, Len(cs))) # <<>>
          THEN <<trim(SubSeq(cs, from + 1, Len(cs)))>>
          ELSE <<>>)
    ELSE <<trim(SubSeq(cs, from + 1, Min(later) - 1))>>
            \o CutAt(cs, Min(later), commas)

\* C26: for every string, parseParams splits at a comma exactly when the
\* comma is outside every quoted segment and outside every open parenthesis
\* group, also after a ')' that closes no group; the depth it decides by is
\* never negative.
C26_SplitsOutsideOpenGroups ==
    output.done =>
       /\ output.value = CutAt(input, 0, TopLevelCommas(input))
       /\ \A i \in 0..Len(input) : Scan(SubSeq(input, 1, i), 1, ScanStart).depth >= 0

(***************************************************************************)
(* The claims about what subscribers have seen when a set returns.         *)
(***************************************************************************)
\* The positions of the record where the callback under key k of store s was
\* invoked.
Deliveries(s, k) ==
    {i \in Positions("call") : log[i].store = s /\ log[i].key = k}

\* C27: when the outermost set on a store has returned, the value each of
\* the store's subscribers was last invoked with is the value the store
\* holds, also when a callback called set on the same store with another
\* value during the notification.
C27_LastDeliveredIsCurrent ==
    Done("set", "returned") =>
        \A k \in KeysOf(stores[log[1].store].subs) :
            Deliveries(log[1].store, k) # {} =>
                log[Max(Deliveries(log[1].store, k))].v = stores[log[1].store].value

(***************************************************************************)
(* The claims about a table that changes during a round.                   *)
(***************************************************************************)
\* The keys of a sequence of entries or of lines of the record, in order.
KeySeq(q) == [i \in 1..Len(q) |-> q[i].key]

\* C28: a set notifies the table as it was when the call began.  The entries
\* it takes then are those of the table; what its callbacks do to the table
\* changes neither them nor their order; the callbacks it has invoked are
\* always the first of those entries, each once, so a key that an earlier
\* callback unsubscribed is still invoked in this round and a key subscribed
\* during the round is not; and where errors are not rethrown a set that
\* has returned has invoked them all.  The next set takes the table as it
\* then is.
C28_NotifiesTableAsAtStart ==
    /\ [][ IsCall("set") => stack'[1].entries = ObjectEntries(stores[Callee].subs) ]_vars
    /\ [][ (~Quiescent /\ Len(stack') = Len(stack)) =>
              stack'[Len(stack')].entries = Top.entries ]_vars
    /\ [](\A f \in 1..Len(stack) :
             KeySeq(CallsOf(stack[f].fid))
                = KeySeq(SubSeq(stack[f].entries, 1, stack[f].idx - 1)))
    /\ []((env # "development" /\ Done("set", "returned")) => AllInvoked)

\* A set has returned during which the callback under a unsubscribed b: the
\* callback under b was invoked after that all the same, and subscribed c;
\* b is not in the table any more, c is, and c's callback was not invoked.
C28_Witness ==
    /\ Done("set", "returned")
    /\ \E i, j \in Positions("call") :
          /\ i < j
          /\ log[i].cb.type = "unsub" /\ log[i].key = "a"
          /\ log[j].key = "b" /\ log[j].cb.type = "sub"
          /\ log[j].fid = log[i].fid
    /\ ~hasOwnProperty(stores["s1"].subs, "b")
    /\ hasOwnProperty(stores["s1"].subs, "c")
    /\ \A i \in Positions("call") : log[i].key # "c"

(***************************************************************************)
(* The claims about several targets of one source.                         *)
(***************************************************************************)
\* Two render targets with the same data-bind, GLOBAL.y|y, and the same
\* placeholder.
SameRule == {"e1", "e5"}

\* Render target e has its render callback subscribed on GLOBAL.y.
BoundToY(st, e) ==
    \E i \in 1..Len(st[GLOBAL["y"]].subs) :
        /\ st[GLOBAL["y"]].subs[i].cb.type = "bind"
        /\ st[GLOBAL["y"]].subs[i].cb.tgt = e

\* C29: bind of a render target not yet bound to GLOBAL.y with the template
\* key y succeeds, however many other targets are bound so (no target with
\* another data-bind being subscribed there); and when a set on GLOBAL.y has
\* returned, each target bound to it shows the value set.
C29_ManyTargetsOneSource ==
    /\ [][ (/\ IsCall("bind")
            /\ Callee \in SameRule
            /\ \A e \in (Elems \ SameRule) \cup {Callee} : ~BoundToY(stores, e)) =>
              (log'[Len(log')].ev = "returned" /\ BoundToY(stores', Callee)) ]_vars
    /\ []((Done("set", "returned") /\ log[1].store = GLOBAL["y"]) =>
             \A e \in SameRule : BoundToY(stores, e) => html[e] = log[1].v)
\* The sources a compute rule can subscribe to: the stores that exist.
Exists(s) == stores[s].kind # "none"

\* C30: when setupComputed throws after its rule was parsed, that is while it
\* subscribes to the rule's sources, every store that existed has the
\* subscriptions it had before the call, and GLOBAL[T] is what it was.
C30_WiringAllOrNothing ==
    [][ (/\ IsCall("setupComputed")
         /\ log'[1].store # "none"
         /\ log'[Len(log')].ev = "threw") =>
           (/\ \A s \in StoreIds : Exists(s) => stores'[s].subs = stores[s].subs
            /\ GLOBAL'[targetKey(CalleeKey)] = GLOBAL[targetKey(CalleeKey)]) ]_vars

====
